---------------------------- MODULE Spec2Model ----------------------------
(***************************************************************************)
(* The real-time audio-event pipeline of backend/echolens_api.py:          *)
(* the process-wide control flags, the live and demo loop threads, the     *)
(* Flask handlers that start, stop and switch them, and the shared data    *)
(* they write (the audio level history, the two in-memory sinks, the       *)
(* audio queue).                                                           *)
(*                                                                         *)
(* The code takes no lock anywhere, so every read and write of a global    *)
(* is a point where another thread may run.  A handler or a loop is        *)
(* therefore several actions, cut where the code sleeps or where a value   *)
(* read earlier is used after another thread may have changed it.          *)
(*                                                                         *)
(* Time is the wall clock read by time.time(), in ticks of half a second   *)
(* (the shortest sleep of a handler); Seconds(n) converts.  A sleeping     *)
(* handler wakes no earlier than its sleep allows; the scheduler gives no  *)
(* upper bound on any step.  The short sleeps at the end of a loop         *)
(* iteration (0.1 s, 0.5 s) are scheduling points without a modelled       *)
(* duration.                                                               *)
(***************************************************************************)
EXTENDS Integers, Sequences, FiniteSets, TLC

\* ------------------------------------------------------------- bounds
MaxThreads == 3
MaxReq == 2
StartTime == 5
MaxTicks == 6
MaxQueue == 1
MaxNew == 2
MaxEnergy == 12
EnergyScale == 100000

\* -------------------------------------------------- program constants
MAX_AUDIO_HISTORY == 20
COOLDOWN_S == 2
STOP_SLEEP_S == 1
INIT_HISTORY_LEN == 20
\* queue.Queue() of line 223: maxsize 0, a queue without a capacity
QUEUE_MAXSIZE == 0
SPEECH_LEVEL_MIN == 10
SOUND_CONF_MIN == 30
SINK_CAP == 100
EPSILON == 1

Seconds(n) == 2 * n
COOLDOWN == Seconds(COOLDOWN_S)
STOP_SLEEP == Seconds(STOP_SLEEP_S)
MODE_SLEEP == Seconds(1) \div 2
MaxTime == StartTime + MaxTicks

ThreadIds == 1..MaxThreads
ReqIds == 1..MaxReq

VARIABLES
    boot,                  \* "init" | "main" (python echolens_api.py) | "wsgi" (imported)
    first_request_done,    \* Flask's before_first_request hook has run
    now,                   \* time.time() / datetime.now()
    is_processing_audio,
    demo_mode,
    is_demo_processing,
    last_restart_time,
    threads,               \* the loop threads: kind, position, locals
    req,                   \* the handler invocations in flight
    last_response,         \* the response returned last
    audio_level_history,
    transcriptions,        \* mock_db["transcriptions"]
    sound_alerts,          \* mock_db["sound_alerts"]
    audio_queue,
    user_preferences,      \* mock_db["user_preferences"], the toggles the pipeline reads
    speech_tasks,          \* process_speech threads started, before their line 873
    speech_pending,        \* transcriptions built by process_speech (lines 873-880), not yet appended
    db_initialized,        \* the document store was reached at start-up
    db_transcriptions,     \* the documents of the store's transcriptions collection
    db_sound_alerts,       \* the documents of the store's sound_alerts collection
    expected_history,      \* history: what a sequential record() would hold
    last_setmode_call,     \* history: when the call that changed demo_mode last arrived
    last_mode_change,      \* history: when demo_mode changed last
    flag_cleared_by,       \* history: who wrote False last, per running flag
    iteration_prefs,       \* history: the preferences when a thread's iteration began
    speech_log             \* the error messages the speech tasks have logged

flags == <<is_processing_audio, demo_mode, is_demo_processing, last_restart_time>>
store == <<db_initialized, db_transcriptions, db_sound_alerts>>
data == <<audio_level_history, transcriptions, sound_alerts, audio_queue,
          user_preferences, speech_tasks, speech_pending, expected_history,
          store>>
hist == <<last_setmode_call, last_mode_change, flag_cleared_by, iteration_prefs,
          speech_log>>
vars == <<boot, first_request_done, now, flags, threads, req, last_response,
          data, hist>>

\* ------------------------------------------------------------ helpers
LastN(s, n) == IF Len(s) <= n THEN s ELSE SubSeq(s, Len(s) - n + 1, Len(s))

NoThread == [kind |-> "none", pc |-> "none", tmp |-> <<>>, frame |-> <<>>]
IdleReq == [op |-> "none", pc |-> "idle", arg |-> FALSE, ct |-> 0, wake |-> 0]
NoResponse == [op |-> "none", result |-> "none"]

FreeSlots == {t \in ThreadIds : threads[t].kind = "none"}
\* threading.Thread(target=...).start(): the new thread has run nothing yet
Spawn(ths, kind) ==
    LET t == CHOOSE x \in ThreadIds :
                 /\ ths[x].kind = "none"
                 /\ \A y \in ThreadIds : ths[y].kind = "none" => x <= y
    IN [ths EXCEPT ![t] = [kind |-> kind, pc |-> "start", tmp |-> <<>>, frame |-> <<>>]]

LiveThreads == {t \in ThreadIds : threads[t].kind = "live"}
DemoThreads == {t \in ThreadIds : threads[t].kind = "demo"}

default_preferences ==
    [transcription_enabled |-> TRUE, sound_detection_enabled |-> TRUE,
     emotion_detection_enabled |-> TRUE, directional_audio |-> TRUE]

\* line 226: twenty start values.  The code draws them at random below 0.1;
\* nothing reads their values but the level display, and 0 stands for each.
InitHistory == [i \in 1..INIT_HISTORY_LEN |-> 0]

\* init_database() returned False (line 987): no MONGODB_URI, or no connection
NoStore ==
    /\ db_initialized = FALSE
    /\ db_transcriptions = <<>>
    /\ db_sound_alerts = <<>>

\* --------------------------------------------------------------- Init
\* The module's globals as the import leaves them (lines 177-239).
Init ==
    /\ boot = "init"
    /\ first_request_done = FALSE
    /\ now = StartTime
    /\ is_processing_audio = FALSE
    /\ demo_mode = FALSE
    /\ is_demo_processing = FALSE
    /\ last_restart_time = 0
    /\ threads = [t \in ThreadIds |-> NoThread]
    /\ req = [r \in ReqIds |-> IdleReq]
    /\ last_response = NoResponse
    /\ audio_level_history = InitHistory
    /\ transcriptions = <<>>
    /\ sound_alerts = <<>>
    /\ audio_queue = <<>>
    /\ user_preferences = default_preferences
    /\ speech_tasks = 0
    /\ speech_pending = <<>>
    /\ NoStore
    /\ expected_history = InitHistory
    /\ last_setmode_call = 0
    /\ last_mode_change = 0
    /\ flag_cleared_by = [live |-> "init", demo |-> "init"]
    /\ iteration_prefs = [t \in ThreadIds |-> default_preferences]
    /\ speech_log = {}

\* ---------------------------------------------------------- the clock
Tick ==
    /\ now < MaxTime
    /\ now' = now + 1
    /\ UNCHANGED <<boot, first_request_done, flags, threads, req, last_response,
                   data, hist>>

\* ------------------------------------------------------ process start
\* python echolens_api.py: the __main__ block stamps the restart time and
\* starts the loop of the current mode before app.run().
MainStart ==
    /\ boot = "init"
    /\ boot' = "main"
    /\ last_restart_time' = now
    /\ threads' = Spawn(threads, IF demo_mode THEN "demo" ELSE "live")
    /\ UNCHANGED <<first_request_done, now, is_processing_audio, demo_mode,
                   is_demo_processing, req, last_response, data, hist>>

\* app_wrapper.py (or a WSGI server) imports the module: no __main__ block.
WsgiStart ==
    /\ boot = "init"
    /\ boot' = "wsgi"
    /\ UNCHANGED <<first_request_done, now, flags, threads, req, last_response,
                   data, hist>>

\* @app.before_first_request: runs once, before the first request is handled,
\* while Flask holds every other request back.
on_first_request ==
    /\ boot # "init"
    /\ ~first_request_done
    /\ first_request_done' = TRUE
    /\ last_restart_time' = now
    /\ IF demo_mode /\ ~is_demo_processing
         THEN FreeSlots # {} /\ threads' = Spawn(threads, "demo")
         ELSE IF ~demo_mode /\ ~is_processing_audio
                THEN FreeSlots # {} /\ threads' = Spawn(threads, "live")
                ELSE threads' = threads
    /\ UNCHANGED <<boot, now, is_processing_audio, demo_mode, is_demo_processing,
                   req, last_response, data, hist>>

\* ----------------------------------------------------------- handlers
CanServe(r) ==
    /\ first_request_done
    /\ req[r].pc = "idle"
    /\ \A q \in ReqIds : req[q].pc = "idle" => r <= q

Return(r, op, result) ==
    /\ req' = [req EXCEPT ![r] = IdleReq]
    /\ last_response' = [op |-> op, result |-> result]

\* /api/set-demo-mode, lines 1036-1046: the rate limit.
SetModeThrottle(r, new_demo_mode) ==
    /\ CanServe(r)
    /\ IF last_restart_time # 0 /\ now - last_restart_time < COOLDOWN
         THEN Return(r, "set_demo_mode", "throttled")
         ELSE /\ req' = [req EXCEPT ![r] = [op |-> "set_demo_mode", pc |-> "sm_change",
                                            arg |-> new_demo_mode, ct |-> now, wake |-> 0]]
              /\ last_response' = last_response
    /\ UNCHANGED <<boot, first_request_done, now, flags, threads, data, hist>>

\* lines 1048-1075 up to the sleep: change the flag, stop the other loop.
SetModeChange(r) ==
    /\ req[r].pc = "sm_change"
    /\ IF req[r].arg = demo_mode
         THEN /\ Return(r, "set_demo_mode", "ok")
              /\ UNCHANGED <<flags, threads, hist>>
         ELSE /\ demo_mode' = req[r].arg
              /\ last_mode_change' = now
              /\ UNCHANGED <<iteration_prefs, speech_log>>
              /\ last_setmode_call' = req[r].ct
              /\ IF req[r].arg
                   THEN IF is_processing_audio
                          THEN /\ is_processing_audio' = FALSE
                               /\ flag_cleared_by' = [flag_cleared_by EXCEPT !.live = "switch"]
                               /\ req' = [req EXCEPT ![r].pc = "sm_sleep",
                                                     ![r].wake = now + MODE_SLEEP]
                               /\ last_response' = last_response
                               /\ UNCHANGED <<is_demo_processing, last_restart_time, threads>>
                          ELSE /\ IF ~is_demo_processing
                                    THEN FreeSlots # {} /\ threads' = Spawn(threads, "demo")
                                    ELSE threads' = threads
                               /\ last_restart_time' = req[r].ct
                               /\ Return(r, "set_demo_mode", "ok")
                               /\ UNCHANGED <<is_processing_audio, is_demo_processing,
                                              flag_cleared_by>>
                   ELSE IF is_demo_processing
                          THEN /\ is_demo_processing' = FALSE
                               /\ flag_cleared_by' = [flag_cleared_by EXCEPT !.demo = "switch"]
                               /\ req' = [req EXCEPT ![r].pc = "sm_sleep",
                                                     ![r].wake = now + MODE_SLEEP]
                               /\ last_response' = last_response
                               /\ UNCHANGED <<is_processing_audio, last_restart_time, threads>>
                          ELSE /\ last_restart_time' = req[r].ct
                               /\ Return(r, "set_demo_mode", "ok")
                               /\ UNCHANGED <<is_processing_audio, is_demo_processing,
                                              threads, flag_cleared_by>>
    /\ UNCHANGED <<boot, first_request_done, now, data>>

\* after time.sleep(0.5), lines 1063-1064 and 1075: start the demo loop if the
\* switch was to demo mode and none has raised its flag, stamp the restart time
\* with the time read at the start of the call.
SetModeWake(r) ==
    /\ req[r].pc = "sm_sleep"
    /\ now >= req[r].wake
    /\ IF req[r].arg /\ ~is_demo_processing
         THEN FreeSlots # {} /\ threads' = Spawn(threads, "demo")
         ELSE threads' = threads
    /\ last_restart_time' = req[r].ct
    /\ Return(r, "set_demo_mode", "ok")
    /\ UNCHANGED <<boot, first_request_done, now, is_processing_audio, demo_mode,
                   is_demo_processing, data, hist>>

\* /api/start, lines 1149-1155.
StartMode(r) ==
    /\ CanServe(r)
    /\ IF demo_mode
         THEN Return(r, "start", "ignored")
         ELSE /\ req' = [req EXCEPT ![r] = [IdleReq EXCEPT !.op = "start", !.pc = "st_check"]]
              /\ last_response' = last_response
    /\ UNCHANGED <<boot, first_request_done, now, flags, threads, data, hist>>

\* StartCheck without the running test of line 1157
StartCheckNoRunningTest(r) ==
    /\ req[r].pc = "st_check"
    /\ IF now - last_restart_time > COOLDOWN
         THEN /\ req' = [req EXCEPT ![r].pc = "st_spawn", ![r].ct = now]
              /\ last_response' = last_response
         ELSE Return(r, "start", "throttled")
    /\ UNCHANGED <<boot, first_request_done, now, flags, threads, data, hist>>

\* StartCheck letting a start through when exactly the cooldown has passed
StartCheckAtCooldown(r) ==
    /\ req[r].pc = "st_check"
    /\ IF is_processing_audio
         THEN Return(r, "start", "already_running")
         ELSE IF now - last_restart_time >= COOLDOWN
                THEN /\ req' = [req EXCEPT ![r].pc = "st_spawn", ![r].ct = now]
                     /\ last_response' = last_response
                ELSE Return(r, "start", "throttled")
    /\ UNCHANGED <<boot, first_request_done, now, flags, threads, data, hist>>

\* lines 1157-1160 and 1168-1177.
StartCheck(r) ==
    /\ req[r].pc = "st_check"
    /\ IF is_processing_audio
         THEN Return(r, "start", "already_running")
         ELSE IF now - last_restart_time > COOLDOWN
                THEN /\ req' = [req EXCEPT ![r].pc = "st_spawn", ![r].ct = now]
                     /\ last_response' = last_response
                ELSE Return(r, "start", "throttled")
    /\ UNCHANGED <<boot, first_request_done, now, flags, threads, data, hist>>

\* lines 1161-1167.
StartSpawn(r) ==
    /\ req[r].pc = "st_spawn"
    /\ FreeSlots # {}
    /\ last_restart_time' = req[r].ct
    /\ threads' = Spawn(threads, "live")
    /\ Return(r, "start", "started")
    /\ UNCHANGED <<boot, first_request_done, now, is_processing_audio, demo_mode,
                   is_demo_processing, data, hist>>

\* StopCheck without the running test of line 1185
StopCheckUnconditional(r) ==
    /\ CanServe(r)
    /\ is_processing_audio' = FALSE
    /\ flag_cleared_by' = [flag_cleared_by EXCEPT !.live = "stop"]
    /\ req' = [req EXCEPT ![r] = [IdleReq EXCEPT !.op = "stop", !.pc = "sp_sleep",
                                                 !.wake = now + STOP_SLEEP]]
    /\ last_response' = last_response
    /\ UNCHANGED <<boot, first_request_done, now, demo_mode, is_demo_processing,
                   last_restart_time, threads, data, last_setmode_call, last_mode_change,
                   iteration_prefs, speech_log>>

\* /api/stop, lines 1185-1191.
StopCheck(r) ==
    /\ CanServe(r)
    /\ IF is_processing_audio
         THEN /\ is_processing_audio' = FALSE
              /\ flag_cleared_by' = [flag_cleared_by EXCEPT !.live = "stop"]
              /\ req' = [req EXCEPT ![r] = [IdleReq EXCEPT !.op = "stop", !.pc = "sp_sleep",
                                                           !.wake = now + STOP_SLEEP]]
              /\ last_response' = last_response
         ELSE /\ Return(r, "stop", "not_running")
              /\ UNCHANGED <<is_processing_audio, flag_cleared_by>>
    /\ UNCHANGED <<boot, first_request_done, now, demo_mode, is_demo_processing,
                   last_restart_time, threads, data, last_setmode_call, last_mode_change,
                   iteration_prefs, speech_log>>

StopWake(r) ==
    /\ req[r].pc = "sp_sleep"
    /\ now >= req[r].wake
    /\ Return(r, "stop", "stopped")
    /\ UNCHANGED <<boot, first_request_done, now, flags, threads, data, hist>>

\* ----------------------------------------------- detect_sound_direction
\* Channel energies are whole multiples of epsilon (1e-10, line 265), so that
\* left_energy / (right_energy + epsilon) is an exact fraction.  Numbers are
\* fractions num/den; den = 0 stands for numpy's inf.
Frac(n, d) == [num |-> n, den |-> d]
Zero == Frac(0, 1)
Min(a, b) == IF a <= b THEN a ELSE b
Abs(a) == IF a < 0 THEN -a ELSE a

\* The reciprocal with Python floats: 1 / 0.0 raises ZeroDivisionError, which
\* the except clause of line 295 would catch.  num = den = 0 marks the raise.
InverseRaising(q) == IF q.num = 0 THEN Frac(0, 0) ELSE Frac(q.den, q.num)

\* line 280, 1/ratio: ratio is a numpy float, so 1/0.0 is inf (with a
\* warning), not an exception.
Inverse(q) == IF q.num = 0 THEN Frac(1, 0) ELSE Frac(q.den, q.num)

\* lines 295-297: what the except clause returns
ErrorDirection == [angle |-> Zero, direction |-> "unknown", confidence |-> Zero]

\* lines 259-294
detect_sound_direction(left_energy, right_energy) ==
    LET ratio == Frac(left_energy, right_energy + EPSILON)
        confidence == Frac(Min(ratio.den, 2 * Abs(ratio.den - ratio.num)), ratio.den)
    IN IF 10 * ratio.num > 11 * ratio.den
         THEN [angle |-> Frac(270 * ratio.den
                              - Min(90 * ratio.den, 45 * (ratio.num - ratio.den)),
                              ratio.den),
               direction |-> "left", confidence |-> confidence]
         ELSE IF 10 * ratio.num < 9 * ratio.den
                THEN LET inv == Inverse(ratio)
                     IN IF inv = Frac(0, 0) THEN ErrorDirection
                        ELSE [angle |-> IF inv.den = 0
                                          THEN Frac(90 - Min(90, 90), 1)
                                          ELSE Frac(90 * inv.den
                                                    - Min(90 * inv.den,
                                                          45 * (inv.num - inv.den)),
                                                    inv.den),
                              direction |-> "right", confidence |-> confidence]
                ELSE [angle |-> Zero, direction |-> "center", confidence |-> confidence]

\* lines 797-803: the direction of a frame; only a stereo frame is estimated
direction_info(frame) ==
    IF frame.channels >= 2
      THEN detect_sound_direction(frame.left, frame.right)
      ELSE [angle |-> Zero, direction |-> "center", confidence |-> Zero]

\* ------------------------------------------------- process_audio_chunk
\* lines 758 and 793: audio_level_history.append(level)
RecordLevel(h, level) == Append(h, level)

\* lines 759-760 and 794-795, the right-hand side: the slice is a new list
TrimmedHistory(h) == LastN(h, MAX_AUDIO_HISTORY)

\* lines 762-772: the demo branch after the level history.  want_t and want_s
\* are the two random draws, t_item and s_item what the generators return.
\* DemoTranscriptions putting the new item first
DemoTranscriptionsInFront(ts, want_t, t_item) ==
    IF want_t /\ user_preferences.transcription_enabled THEN <<t_item>> \o ts ELSE ts

DemoTranscriptions(ts, want_t, t_item) ==
    IF want_t /\ user_preferences.transcription_enabled THEN Append(ts, t_item) ELSE ts

DemoSoundAlerts(sa, want_s, s_item) ==
    IF want_s /\ user_preferences.sound_detection_enabled THEN Append(sa, s_item) ELSE sa

\* AlertsOf without the confidence floor of line 812
AlertsOfAll(dets, dir, ts) ==
    [i \in 1..Len(dets) |->
        [timestamp |-> ts, sound |-> dets[i].sound, confidence |-> dets[i].confidence,
         direction |-> dir.direction, angle |-> dir.angle]]

\* lines 811-821: one alert per detection above the confidence floor
RECURSIVE AlertsOf(_, _, _)
AlertsOf(dets, dir, ts) ==
    IF dets = <<>> THEN <<>>
    ELSE LET d == Head(dets)
             rest == AlertsOf(Tail(dets), dir, ts)
         IN IF d.confidence > SOUND_CONF_MIN
              THEN <<[timestamp |-> ts, sound |-> d.sound, confidence |-> d.confidence,
                      direction |-> dir.direction, angle |-> dir.angle]>> \o rest
              ELSE rest

\* lines 797-821.  exc = "sounds": a stage raised before any alert was appended.
LiveSoundAlerts(sa, frame, exc) ==
    IF exc # "sounds" /\ user_preferences.sound_detection_enabled
      THEN sa \o AlertsOf(frame.dets, direction_info(frame), now)
      ELSE sa

\* lines 835-838.  exc = "speech": a stage raised after the alerts, before the
\* speech thread was started.
LiveSpeechTasks(n, frame, exc) ==
    IF exc = "none" /\ user_preferences.transcription_enabled
         /\ frame.level > SPEECH_LEVEL_MIN
      THEN n + 1
      ELSE n

\* The alerts one chunk has to append: that of the demo draw (lines 767-771)
\* or those of the frame's detections (lines 805-820).
NewAlerts(t, demo_in, exc) ==
    IF threads[t].kind = "demo"
      THEN DemoSoundAlerts(<<>>, demo_in.want_s, demo_in.s_item)
      ELSE LiveSoundAlerts(<<>>, threads[t].frame, exc)

\* What the saves of n alerts may do, one outcome per alert: without a store
\* nothing is saved (lines 775, 824), with one each save succeeds or raises.
SaveOutcomes(n) ==
    IF db_initialized THEN [1..n -> BOOLEAN] ELSE {[i \in 1..n |-> FALSE]}

\* the document save_detected_sound stores for an alert
AlertDocument(alert) ==
    [sound |-> alert.sound, confidence |-> alert.confidence,
     direction |-> alert.direction, angle |-> alert.angle]

\* the documents of the alerts whose save succeeded
RECURSIVE Saved(_, _)
Saved(new, ok) ==
    IF new = <<>> THEN <<>>
    ELSE (IF Head(ok) THEN <<AlertDocument(Head(new))>> ELSE <<>>)
           \o Saved(Tail(new), Tail(ok))

\* a save that raises ends the chunk: the alerts after it are not appended
RECURSIVE AppendedUntilFailure(_, _)
AppendedUntilFailure(new, ok) ==
    IF new = <<>> THEN <<>>
    ELSE IF db_initialized /\ ~Head(ok) THEN <<Head(new)>>
    ELSE <<Head(new)>> \o AppendedUntilFailure(Tail(new), Tail(ok))

\* The alerts appended in memory: each is appended before its save (lines
\* 771, 820) and a save that raises is caught and logged (lines 783-784,
\* 832-833), so every alert is appended whatever the saves do.
Appended(new, ok) == new

\* the stages of one chunk that follow the level history; the except clauses
\* of lines 841-845 turn any exception into a return.  The demo
\* transcription is not saved to the store (lines 762-765).
ChunkRest(t, demo_in, exc) ==
    /\ \E ok \in SaveOutcomes(Len(NewAlerts(t, demo_in, exc))) :
           /\ sound_alerts' = sound_alerts \o Appended(NewAlerts(t, demo_in, exc), ok)
           /\ db_sound_alerts' = db_sound_alerts \o Saved(NewAlerts(t, demo_in, exc), ok)
    /\ IF threads[t].kind = "demo"
         THEN /\ transcriptions' =
                     DemoTranscriptions(transcriptions, demo_in.want_t, demo_in.t_item)
              /\ speech_tasks' = speech_tasks
         ELSE /\ transcriptions' = transcriptions
              /\ speech_tasks' = LiveSpeechTasks(speech_tasks, threads[t].frame, exc)
    /\ UNCHANGED <<db_initialized, db_transcriptions, speech_pending>>

\* -------------------------------------------------------- loop threads
\* audio_processing_thread up to the while: open the input stream (which may
\* fail: no device, device busy), then raise the running flag.  A failed
\* open is logged by the except clause of lines 927-928 ("failed"), which
\* the finally block follows.
LiveOpen(t, opened) ==
    /\ threads[t].kind = "live" /\ threads[t].pc = "start"
    /\ IF opened
         THEN /\ is_processing_audio' = TRUE
              /\ threads' = [threads EXCEPT ![t].pc = "loop"]
         ELSE /\ is_processing_audio' = is_processing_audio
              /\ threads' = [threads EXCEPT ![t].pc = "failed"]
    /\ UNCHANGED <<boot, first_request_done, now, demo_mode, is_demo_processing,
                   last_restart_time, req, last_response, data, hist>>

\* demo_processing_thread up to the while.
DemoOpen(t) ==
    /\ threads[t].kind = "demo" /\ threads[t].pc = "start"
    /\ is_demo_processing' = TRUE
    /\ threads' = [threads EXCEPT ![t].pc = "loop"]
    /\ UNCHANGED <<boot, first_request_done, now, is_processing_audio, demo_mode,
                   last_restart_time, req, last_response, data, hist>>

LoopCondition(t) ==
    IF threads[t].kind = "live" THEN is_processing_audio
    ELSE is_demo_processing /\ demo_mode

\* the while test fails: leave the loop (and the with block).
LoopExit(t) ==
    /\ threads[t].pc = "loop"
    /\ ~LoopCondition(t)
    /\ threads' = [threads EXCEPT ![t].pc = "finally"]
    /\ UNCHANGED <<boot, first_request_done, now, flags, req, last_response, data, hist>>

\* a demo iteration, lines 942-943 and 755-758: the level of this tick.
DemoTick(t, level) ==
    /\ threads[t].kind = "demo" /\ threads[t].pc = "loop"
    /\ LoopCondition(t)
    /\ audio_level_history' = RecordLevel(audio_level_history, level)
    /\ expected_history' = TrimmedHistory(Append(expected_history, level))
    /\ threads' = [threads EXCEPT ![t].pc = "trim"]
    /\ iteration_prefs' = [iteration_prefs EXCEPT ![t] = user_preferences]
    /\ UNCHANGED <<boot, first_request_done, now, flags, req, last_response,
                   transcriptions, sound_alerts, audio_queue, user_preferences,
                   speech_tasks, speech_pending, store, last_setmode_call, last_mode_change,
                   flag_cleared_by, speech_log>>

\* LiveEmpty recording a level of silence for the missing frame
LiveEmptyRecordsSilence(t) ==
    /\ threads[t].kind = "live" /\ threads[t].pc = "loop"
    /\ LoopCondition(t)
    /\ audio_queue = <<>>
    /\ audio_level_history' = RecordLevel(audio_level_history, 0)
    /\ UNCHANGED <<boot, first_request_done, now, flags, threads, req, last_response,
                   transcriptions, sound_alerts, audio_queue, user_preferences,
                   speech_tasks, speech_pending, expected_history, store, hist>>

\* a live iteration that finds the queue empty, lines 789 and 841-842.
LiveEmpty(t) ==
    /\ threads[t].kind = "live" /\ threads[t].pc = "loop"
    /\ LoopCondition(t)
    /\ audio_queue = <<>>
    /\ UNCHANGED vars

\* LiveFrame reading the first frame without taking it out of the queue
LiveFramePeek(t, raised) ==
    /\ threads[t].kind = "live" /\ threads[t].pc = "loop"
    /\ LoopCondition(t)
    /\ audio_queue # <<>>
    /\ audio_queue' = audio_queue
    /\ iteration_prefs' = [iteration_prefs EXCEPT ![t] = user_preferences]
    /\ IF raised
         THEN UNCHANGED <<audio_level_history, expected_history, threads>>
         ELSE /\ audio_level_history' = RecordLevel(audio_level_history, Head(audio_queue).level)
              /\ expected_history' =
                     TrimmedHistory(Append(expected_history, Head(audio_queue).level))
              /\ threads' = [threads EXCEPT ![t].pc = "trim", ![t].frame = Head(audio_queue)]
    /\ UNCHANGED <<boot, first_request_done, now, flags, req, last_response,
                   transcriptions, sound_alerts, user_preferences, speech_tasks,
                   speech_pending, store, last_setmode_call, last_mode_change,
                   flag_cleared_by, speech_log>>

\* LiveFrame running the recognition inside the loop: the next frame is taken
\* when the speech tasks before it are done
LiveFrameAfterSpeech(t, raised) ==
    /\ threads[t].kind = "live" /\ threads[t].pc = "loop"
    /\ LoopCondition(t)
    /\ audio_queue # <<>>
    /\ speech_tasks = 0
    /\ audio_queue' = Tail(audio_queue)
    /\ iteration_prefs' = [iteration_prefs EXCEPT ![t] = user_preferences]
    /\ IF raised
         THEN UNCHANGED <<audio_level_history, expected_history, threads>>
         ELSE /\ audio_level_history' = RecordLevel(audio_level_history, Head(audio_queue).level)
              /\ expected_history' =
                     TrimmedHistory(Append(expected_history, Head(audio_queue).level))
              /\ threads' = [threads EXCEPT ![t].pc = "trim", ![t].frame = Head(audio_queue)]
    /\ UNCHANGED <<boot, first_request_done, now, flags, req, last_response,
                   transcriptions, sound_alerts, user_preferences, speech_tasks, speech_pending, store,
                   last_setmode_call, last_mode_change, flag_cleared_by, speech_log>>

\* a live iteration, lines 925-926 and 789-793: take a frame, record its level.
\* raised: computing the level raised, the frame is gone and nothing is recorded.
LiveFrame(t, raised) ==
    /\ threads[t].kind = "live" /\ threads[t].pc = "loop"
    /\ LoopCondition(t)
    /\ audio_queue # <<>>
    /\ audio_queue' = Tail(audio_queue)
    /\ iteration_prefs' = [iteration_prefs EXCEPT ![t] = user_preferences]
    /\ IF raised
         THEN UNCHANGED <<audio_level_history, expected_history, threads>>
         ELSE /\ audio_level_history' = RecordLevel(audio_level_history, Head(audio_queue).level)
              /\ expected_history' =
                     TrimmedHistory(Append(expected_history, Head(audio_queue).level))
              /\ threads' = [threads EXCEPT ![t].pc = "trim", ![t].frame = Head(audio_queue)]
    /\ UNCHANGED <<boot, first_request_done, now, flags, req, last_response,
                   transcriptions, sound_alerts, user_preferences, speech_tasks, speech_pending, store,
                   last_setmode_call, last_mode_change, flag_cleared_by, speech_log>>

\* lines 759-760 / 794-795: test the length and build the slice.  When the
\* history is short enough the chunk goes on to its other stages at once.
ChunkTrim(t, demo_in, exc) ==
    /\ threads[t].pc = "trim"
    /\ IF Len(audio_level_history) > MAX_AUDIO_HISTORY
         THEN /\ threads' = [threads EXCEPT ![t].pc = "assign",
                                            ![t].tmp = TrimmedHistory(audio_level_history)]
              /\ UNCHANGED <<transcriptions, sound_alerts, speech_tasks, speech_pending, store>>
         ELSE /\ threads' = [threads EXCEPT ![t].pc = "loop", ![t].frame = <<>>]
              /\ ChunkRest(t, demo_in, exc)
    /\ UNCHANGED <<boot, first_request_done, now, flags, req, last_response,
                   audio_level_history, audio_queue, user_preferences,
                   expected_history, hist>>

\* the assignment of the slice to the global, then the other stages.
ChunkAssign(t, demo_in, exc) ==
    /\ threads[t].pc = "assign"
    /\ audio_level_history' = threads[t].tmp
    /\ threads' = [threads EXCEPT ![t].pc = "loop", ![t].tmp = <<>>, ![t].frame = <<>>]
    /\ ChunkRest(t, demo_in, exc)
    /\ UNCHANGED <<boot, first_request_done, now, flags, req, last_response,
                   audio_queue, user_preferences, expected_history, hist>>

\* the finally blocks, lines 930-932 and 947-949; the thread ends.
LoopFinally(t) ==
    /\ threads[t].pc \in {"finally", "failed"}
    /\ IF threads[t].kind = "live"
         THEN /\ is_processing_audio' = FALSE
              /\ flag_cleared_by' = [flag_cleared_by EXCEPT !.live = "finally"]
              /\ UNCHANGED is_demo_processing
         ELSE /\ is_demo_processing' = FALSE
              /\ flag_cleared_by' = [flag_cleared_by EXCEPT !.demo = "finally"]
              /\ UNCHANGED is_processing_audio
    /\ threads' = [threads EXCEPT ![t] = NoThread]
    /\ UNCHANGED <<boot, first_request_done, now, demo_mode, last_restart_time, req,
                   last_response, data, last_setmode_call, last_mode_change,
                   iteration_prefs, speech_log>>

\* sounddevice calls audio_callback with each captured block while a stream
\* is open (lines 736-740, 915-921).
StreamOpen == \E t \in LiveThreads : threads[t].pc \in {"loop", "trim", "assign"}

audio_callback(frame) ==
    /\ StreamOpen
    /\ Len(audio_queue) < MaxQueue
    /\ QUEUE_MAXSIZE > 0 => Len(audio_queue) < QUEUE_MAXSIZE
    /\ audio_queue' = Append(audio_queue, frame)
    /\ UNCHANGED <<boot, first_request_done, now, flags, threads, req, last_response,
                   audio_level_history, transcriptions, sound_alerts, user_preferences,
                   speech_tasks, speech_pending, store, expected_history, hist>>

\* What analyze_emotion_with_gemini may return (lines 473-554): the parsed
\* JSON of the remote answer, which is an object with an emotion, an object
\* without one, or a JSON value that is no object (a list, a string, a
\* number); or the object of the keyword fallback.
AnalysisResults ==
    {[object |-> TRUE, emotion |-> "happy"],
     [object |-> TRUE, emotion |-> "absent"],
     [object |-> FALSE, emotion |-> "absent"]}

\* lines 866-880: the transcription stored for text.  emotion_analysis.get
\* raises AttributeError on a value that is no object.
StoredEmotion(analysis) ==
    IF ~user_preferences.emotion_detection_enabled THEN "neutral"
    ELSE IF analysis.emotion = "absent" THEN "neutral" ELSE analysis.emotion

\* What recognize_google (line 864) does besides returning a text: it raises
\* UnknownValueError when it hears no speech and RequestError when the
\* service cannot be reached.
RecognitionErrors == {"UnknownValueError", "RequestError"}

\* Logged adds the silent outcome to the log as well
LoggedAlso(text, analysis) ==
    IF text \in RecognitionErrors THEN {"Speech recognition service error"}
    ELSE IF text # "" /\ user_preferences.emotion_detection_enabled /\ ~analysis.object
           THEN {"Error in speech processing"}
           ELSE {}

\* the except clauses of lines 899-906: what the task logs as an error
Logged(text, analysis) ==
    IF text = "UnknownValueError" THEN {}
    ELSE IF text = "RequestError" THEN {"Speech recognition service error"}
    ELSE IF text # "" /\ user_preferences.emotion_detection_enabled /\ ~analysis.object
           THEN {"Error in speech processing"}
           ELSE {}

\* process_speech, lines 847-908, one thread per dispatch.  text is what the
\* recognizer returns, "" for a blank result, or the name of the exception
\* it raises.  analysis is what the emotion analyzer returns if it is called.
\* With a store the transcription appended is saved (lines 887-897); a save
\* that raises is caught and logged by the database module's logger.
process_speech(text, analysis) ==
    /\ speech_tasks > 0
    /\ speech_tasks' = speech_tasks - 1
    /\ transcriptions' =
           IF text = "" \/ text \in RecognitionErrors THEN transcriptions
           ELSE IF user_preferences.emotion_detection_enabled /\ ~analysis.object
                  THEN transcriptions
                  ELSE Append(transcriptions,
                              [timestamp |-> now, text |-> text,
                               emotion |-> StoredEmotion(analysis)])
    /\ speech_log' = speech_log \cup Logged(text, analysis)
    /\ \E ok \in IF db_initialized /\ Len(transcriptions') > Len(transcriptions)
                  THEN BOOLEAN ELSE {FALSE} :
           db_transcriptions' =
               IF ok THEN Append(db_transcriptions,
                                 [text |-> text, emotion |-> StoredEmotion(analysis),
                                  source |-> "automatic"])
               ELSE db_transcriptions
    /\ UNCHANGED <<boot, first_request_done, now, flags, threads, req, last_response,
                   audio_level_history, sound_alerts, audio_queue, user_preferences,
                   speech_pending, db_initialized, db_sound_alerts,
                   expected_history, last_setmode_call, last_mode_change,
                   flag_cleared_by, iteration_prefs>>

\* process_speech in its two halves, for the executions in which another
\* thread runs between them.  Lines 864-880: the text was recognised and
\* analysed, the transcription is built and takes its timestamp (line 874).
process_speech_build(text, analysis) ==
    /\ speech_tasks > 0
    /\ text # "" /\ text \notin RecognitionErrors
    /\ user_preferences.emotion_detection_enabled => analysis.object
    /\ speech_tasks' = speech_tasks - 1
    /\ speech_pending' = Append(speech_pending,
                                [timestamp |-> now, text |-> text,
                                 emotion |-> StoredEmotion(analysis)])
    /\ UNCHANGED <<boot, first_request_done, now, flags, threads, req, last_response,
                   audio_level_history, transcriptions, sound_alerts, audio_queue,
                   user_preferences, expected_history, store, hist>>

\* s without its i-th item
Without(s, i) == [j \in 1..(Len(s) - 1) |-> IF j < i THEN s[j] ELSE s[j + 1]]

\* lines 883-897: the i-th of the built transcriptions is appended and saved.
process_speech_append(i) ==
    /\ i \in 1..Len(speech_pending)
    /\ transcriptions' = Append(transcriptions, speech_pending[i])
    /\ speech_pending' = Without(speech_pending, i)
    /\ \E ok \in IF db_initialized THEN BOOLEAN ELSE {FALSE} :
           db_transcriptions' =
               IF ok THEN Append(db_transcriptions,
                                 [text |-> speech_pending[i].text,
                                  emotion |-> speech_pending[i].emotion,
                                  source |-> "automatic"])
               ELSE db_transcriptions
    /\ UNCHANGED <<boot, first_request_done, now, flags, threads, req, last_response,
                   audio_level_history, sound_alerts, audio_queue, user_preferences,
                   speech_tasks, db_initialized, db_sound_alerts, expected_history, hist>>

\* ------------------------------------------------- emotion analysis
\* A text is the sequence of its characters.
UpperCase == <<"A", "B", "C", "D", "E", "F", "G", "H", "I", "J", "K", "L", "M", "N", "O", "P", "Q", "R", "S", "T", "U", "V", "W", "X", "Y", "Z">>

LowerCase == <<"a", "b", "c", "d", "e", "f", "g", "h", "i", "j", "k", "l", "m", "n", "o", "p", "q", "r", "s", "t", "u", "v", "w", "x", "y", "z">>

\* str.lower() of line 568, character by character
Lower(c) ==
    IF \E i \in 1..Len(UpperCase) : UpperCase[i] = c
      THEN LowerCase[CHOOSE i \in 1..Len(UpperCase) : UpperCase[i] = c]
      ELSE c

RECURSIVE LowerText(_)
LowerText(text) ==
    IF text = <<>> THEN <<>> ELSE <<Lower(Head(text))>> \o LowerText(Tail(text))

\* keyword in text, line 585: the keyword occurs as a substring
Occurs(keyword, text) ==
    \E i \in 1..(Len(text) - Len(keyword) + 1) :
        \A j \in 1..Len(keyword) : text[i + j - 1] = keyword[j]

\* lines 571-579, in the order of the dictionary
emotion_keywords ==
    <<
     [emotion |-> "happy",
      keywords |-> {<<"h", "a", "p", "p", "y">>,
                    <<"j", "o", "y">>,
                    <<"g", "l", "a", "d">>,
                    <<"e", "x", "c", "e", "l", "l", "e", "n", "t">>,
                    <<"g", "r", "e", "a", "t">>,
                    <<"w", "o", "n", "d", "e", "r", "f", "u", "l">>,
                    <<"l", "o", "v", "e">>,
                    <<"y", "a", "y">>,
                    <<"s", "m", "i", "l", "e">>}],
     [emotion |-> "excited",
      keywords |-> {<<"e", "x", "c", "i", "t", "e", "d">>,
                    <<"a", "m", "a", "z", "i", "n", "g">>,
                    <<"w", "o", "w">>,
                    <<"a", "w", "e", "s", "o", "m", "e">>,
                    <<"i", "n", "c", "r", "e", "d", "i", "b", "l", "e">>,
                    <<"t", "h", "r", "i", "l", "l", "e", "d">>}],
     [emotion |-> "sad",
      keywords |-> {<<"s", "a", "d">>,
                    <<"s", "o", "r", "r", "y">>,
                    <<"u", "n", "f", "o", "r", "t", "u", "n", "a", "t", "e">>,
                    <<"m", "i", "s", "s">>,
                    <<"r", "e", "g", "r", "e", "t">>,
                    <<"d", "i", "s", "a", "p", "p", "o", "i", "n", "t">>,
                    <<"c", "r", "y">>}],
     [emotion |-> "angry",
      keywords |-> {<<"a", "n", "g", "r", "y">>,
                    <<"m", "a", "d">>,
                    <<"f", "r", "u", "s", "t", "r", "a", "t">>,
                    <<"a", "n", "n", "o", "y", "e", "d">>,
                    <<"h", "a", "t", "e">>,
                    <<"u", "p", "s", "e", "t">>,
                    <<"f", "u", "r", "i", "o", "u", "s">>}],
     [emotion |-> "surprised",
      keywords |-> {<<"s", "u", "r", "p", "r", "i", "s", "e">>,
                    <<"s", "h", "o", "c", "k">>,
                    <<"u", "n", "e", "x", "p", "e", "c", "t", "e", "d">>,
                    <<"w", "o", "a", "h">>,
                    <<"w", "h", "o", "a">>,
                    <<"o", "h", " ", "m", "y">>}],
     [emotion |-> "confused",
      keywords |-> {<<"c", "o", "n", "f", "u", "s", "e", "d">>,
                    <<"u", "n", "c", "l", "e", "a", "r">>,
                    <<"d", "o", "n", "'", "t", " ", "u", "n", "d", "e", "r", "s", "t", "a", "n", "d">>,
                    <<"w", "h", "a", "t", "?">>,
                    <<"h", "u", "h", "?">>,
                    <<"l", "o", "s", "t">>}],
     [emotion |-> "neutral",
      keywords |-> {<<"o", "k", "a", "y">>,
                    <<"f", "i", "n", "e">>,
                    <<"a", "l", "r", "i", "g", "h", "t">>,
                    <<"s", "o">>,
                    <<"a", "n", "d">>,
                    <<"t", "h", "e">>,
                    <<"a">>}]
    >>

\* lines 582-588: the number of the keywords of category i that occur
RECURSIVE ScoresFrom(_, _)
ScoresFrom(i, lowered) ==
    IF i > Len(emotion_keywords) THEN <<>>
    ELSE <<Cardinality({k \in emotion_keywords[i].keywords : Occurs(k, lowered)})>>
           \o ScoresFrom(i + 1, lowered)

emotion_scores(text) == ScoresFrom(1, LowerText(text))

RECURSIVE Sum(_)
Sum(s) == IF s = <<>> THEN 0 ELSE Head(s) + Sum(Tail(s))

\* the last category with the highest score
LastBest(scores) ==
    CHOOSE i \in 1..Len(scores) :
        /\ \A j \in 1..Len(scores) : scores[j] <= scores[i]
        /\ \A j \in 1..Len(scores) : j > i => scores[j] < scores[i]

\* max(emotion_scores, key=emotion_scores.get), line 597: the first category
\* with the highest score
Best(scores) ==
    CHOOSE i \in 1..Len(scores) :
        /\ \A j \in 1..Len(scores) : scores[j] <= scores[i]
        /\ \A j \in 1..Len(scores) : j < i => scores[j] < scores[i]

\* min of two fractions with positive denominators
FracMin(a, b) == IF a.num * b.den <= b.num * a.den THEN a ELSE b

\* provide_fallback_emotion_analysis, lines 556-607.
provide_fallback_emotion_analysis(text) ==
    LET scores == emotion_scores(text)
        primary == Best(scores)
        confidence ==
            IF \A i \in 1..Len(scores) : scores[i] = 0
              THEN Frac(5, 10)
              ELSE FracMin(Frac(7, 10),
                           Frac(scores[primary] * 7, (Sum(scores) + 1) * 10))
    IN [object |-> TRUE,
        emotion |-> IF \A i \in 1..Len(scores) : scores[i] = 0
                      THEN "neutral" ELSE emotion_keywords[primary].emotion,
        confidence |-> confidence,
        intensity |-> Frac(confidence.num * 8, confidence.den * 10),
        source |-> "fallback"]

\* What the remote model does with a prompt: the call raises; the answer is
\* no JSON; it is the JSON object asked for; a JSON object without the
\* emotion field; a JSON value that is no object (a list, a string, a number).
RemoteOutcomes ==
    {"raises", "unparseable", "object", "object_without_emotion", "not_object"}

\* json.loads of the answer, line 546
ParsedAnswer(remote) ==
    [object |-> remote # "not_object",
     emotion |-> IF remote = "object" THEN "happy" ELSE "absent",
     confidence |-> IF remote = "object" THEN Frac(9, 10) ELSE Zero,
     intensity |-> IF remote = "object" THEN Frac(5, 10) ELSE Zero,
     source |-> "remote"]

\* analyze_emotion_with_gemini, lines 473-554, for a text without an image.
\* configured: model is not None.  Whatever json.loads returns is returned
\* (lines 546-547); the fallback is taken when there is no model or no text
\* (line 484), when parsing raises (line 548) and when the call raises
\* (line 552).
analyze_emotion_with_gemini(text, configured, remote) ==
    IF ~configured \/ text = <<>> THEN provide_fallback_emotion_analysis(text)
    ELSE IF remote \in {"raises", "unparseable"}
           THEN provide_fallback_emotion_analysis(text)
           ELSE ParsedAnswer(remote)

\* POST /api/analyze/text, lines 1283-1294, up to the call of the remote
\* model: an empty text is answered at once (lines 1288-1289).
analyze_text(r, text) ==
    /\ CanServe(r)
    /\ IF text = <<>>
         THEN Return(r, "analyze_text", [error |-> "No text provided"])
         ELSE /\ req' = [req EXCEPT ![r] = [op |-> "analyze_text", pc |-> "remote",
                                            arg |-> text, ct |-> now, wake |-> 0]]
              /\ last_response' = last_response
    /\ UNCHANGED <<boot, first_request_done, now, flags, threads, data, hist>>

\* lines 1291-1292: the analyzer returns and its result is the answer.
analyze_text_return(r, configured, remote) ==
    /\ req[r].op = "analyze_text" /\ req[r].pc = "remote"
    /\ Return(r, "analyze_text",
              analyze_emotion_with_gemini(req[r].arg, configured, remote))
    /\ UNCHANGED <<boot, first_request_done, now, flags, threads, data, hist>>

\* ---------------------------------------------------- data endpoints
\* clear_data that forgets the second sink
ClearTranscriptionsOnly(r) ==
    /\ CanServe(r)
    /\ transcriptions' = <<>>
    /\ Return(r, "clear_data", "success")
    /\ UNCHANGED <<boot, first_request_done, now, flags, threads,
                   audio_level_history, sound_alerts, audio_queue, user_preferences,
                   speech_tasks, speech_pending, store, expected_history, hist>>

\* /api/clear-data, lines 1117-1142: both in-memory lists are replaced by
\* empty ones (lines 1122-1123).  With a store the chat messages and the
\* sound_alerts collection are cleared (lines 1126-1136; a failure of the
\* latter is caught at line 1660 and leaves the collection as it is); the
\* transcriptions collection is not touched.
clear_data(r) ==
    /\ CanServe(r)
    /\ transcriptions' = <<>>
    /\ sound_alerts' = <<>>
    /\ \E ok \in IF db_initialized THEN BOOLEAN ELSE {FALSE} :
           db_sound_alerts' = IF ok THEN <<>> ELSE db_sound_alerts
    /\ Return(r, "clear_data", "success")
    /\ UNCHANGED <<boot, first_request_done, now, flags, threads,
                   audio_level_history, audio_queue, user_preferences,
                   speech_tasks, speech_pending, db_initialized, db_transcriptions,
                   expected_history, hist>>

\* the keys a PUT body may name: the three the pipeline reads,
\* directional_audio, and one that user_preferences does not hold
PreferenceKeys ==
    {"transcription_enabled", "sound_detection_enabled",
     "emotion_detection_enabled", "directional_audio", "theme"}

\* PUT /api/preferences, lines 1272-1279, with a body of one field: a key
\* that user_preferences holds gets the value, any other key is ignored.
manage_preferences(r, key, value) ==
    /\ CanServe(r)
    /\ user_preferences' =
           IF key \in DOMAIN user_preferences
             THEN [user_preferences EXCEPT ![key] = value]
             ELSE user_preferences
    /\ Return(r, "manage_preferences", "preferences")
    /\ UNCHANGED <<boot, first_request_done, now, flags, threads,
                   audio_level_history, transcriptions, sound_alerts, audio_queue,
                   speech_tasks, speech_pending, store, expected_history, hist>>

\* the stable sort of lines 1220-1224: newest first, items of one timestamp
\* in the order they have in the list
RECURSIVE InsertByTime(_, _)
InsertByTime(x, s) ==
    IF s = <<>> THEN <<x>>
    ELSE IF Head(s).timestamp >= x.timestamp
           THEN <<Head(s)>> \o InsertByTime(x, Tail(s))
           ELSE <<x>> \o s

RECURSIVE NewestFirst(_)
NewestFirst(s) ==
    IF s = <<>> THEN <<>>
    ELSE InsertByTime(s[Len(s)], NewestFirst(SubSeq(s, 1, Len(s) - 1)))

\* the slice s[:limit]; a negative limit counts from the end
UpTo(s, limit) ==
    IF limit >= 0 THEN SubSeq(s, 1, Min(limit, Len(s)))
    ELSE SubSeq(s, 1, Len(s) + limit)

\* lines 1215-1217; the empty string stands for no emotion parameter, which
\* the test of line 1216 treats like an empty one
Filtered(s, emotion) ==
    IF emotion # "" THEN SelectSeq(s, LAMBDA t : t.emotion = emotion) ELSE s

\* get_transcriptions that returns the items in the order of the list
TranscriptionsUnsorted(r, limit, page, emotion) ==
    /\ CanServe(r)
    /\ Return(r, "get_transcriptions",
              [total |-> Len(Filtered(transcriptions, emotion)),
               page |-> page, limit |-> limit,
               transcriptions |-> UpTo(Filtered(transcriptions, emotion), limit)])
    /\ UNCHANGED <<boot, first_request_done, now, flags, threads, data, hist>>

\* GET /api/transcriptions, lines 1193-1231, on the in-memory list (no
\* database connected, or its query raised): filter, sort, cut at limit.
\* page is read at line 1198 and only echoed at line 1228.
get_transcriptions(r, limit, page, emotion) ==
    /\ CanServe(r)
    /\ Return(r, "get_transcriptions",
              [total |-> Len(Filtered(transcriptions, emotion)),
               page |-> page, limit |-> limit,
               transcriptions |->
                   UpTo(NewestFirst(Filtered(transcriptions, emotion)), limit)])
    /\ UNCHANGED <<boot, first_request_done, now, flags, threads, data, hist>>

\* GET /api/sounds, lines 1233-1265, on the in-memory list.
get_sound_alerts(r, limit, page) ==
    /\ CanServe(r)
    /\ Return(r, "get_sound_alerts",
              [total |-> Len(sound_alerts), page |-> page, limit |-> limit,
               soundAlerts |-> UpTo(NewestFirst(sound_alerts), limit)])
    /\ UNCHANGED <<boot, first_request_done, now, flags, threads, data, hist>>

\* documents.py lines 95-101 and 198-204: what find(query).sort("timestamp",
\* -1).skip(skip).limit(limit) returns of the documents docs, the document
\* saved last first.  A limit of 0 is no limit.
Page(docs, skip, limit) ==
    LET n == Len(docs)
        m == IF limit = 0 THEN n - skip ELSE Min(limit, n - skip)
    IN [i \in 1..(IF m < 0 THEN 0 ELSE m) |-> docs[n + 1 - skip - i]]

\* GET /api/transcriptions with a document store whose query succeeds, lines
\* 1201-1208 and documents.py lines 71-122.
db_get_transcriptions(r, limit, page, emotion) ==
    /\ CanServe(r)
    /\ db_initialized
    /\ limit >= 0 /\ page >= 1
    /\ Return(r, "get_transcriptions",
              [total |-> Len(Filtered(db_transcriptions, emotion)),
               page |-> page, limit |-> limit,
               transcriptions |->
                   Page(Filtered(db_transcriptions, emotion), (page - 1) * limit, limit)])
    /\ UNCHANGED <<boot, first_request_done, now, flags, threads, data, hist>>

\* GET /api/sounds with a document store whose query succeeds, lines
\* 1240-1247 and documents.py lines 168-222.
db_get_sound_alerts(r, limit, page) ==
    /\ CanServe(r)
    /\ db_initialized
    /\ limit >= 0 /\ page >= 1
    /\ Return(r, "get_sound_alerts",
              [total |-> Len(db_sound_alerts), page |-> page, limit |-> limit,
               soundAlerts |-> Page(db_sound_alerts, (page - 1) * limit, limit)])
    /\ UNCHANGED <<boot, first_request_done, now, flags, threads, data, hist>>

\* ------------------------------------------------------ specifications
\* ---- the control plane
\* The inputs of one demo tick when both random draws miss.
QuietDemo == [want_t |-> FALSE, want_s |-> FALSE, t_item |-> <<>>, s_item |-> <<>>]

\* The handlers, served by the request slots R, and the threads' control steps.
Control(R) ==
    \/ Tick
    \/ MainStart
    \/ WsgiStart
    \/ on_first_request
    \/ \E r \in R, b \in BOOLEAN : SetModeThrottle(r, b)
    \/ \E r \in R : SetModeChange(r)
    \/ \E r \in R : SetModeWake(r)
    \/ \E r \in R : StartMode(r)
    \/ \E r \in R : StartCheck(r)
    \/ \E r \in R : StartSpawn(r)
    \/ \E r \in R : StopCheck(r)
    \/ \E r \in R : StopWake(r)
    \/ \E t \in ThreadIds, ok \in BOOLEAN : LiveOpen(t, ok)
    \/ \E t \in ThreadIds : DemoOpen(t)
    \/ \E t \in ThreadIds : LoopExit(t)
    \/ \E t \in ThreadIds : LoopFinally(t)

\* The loops in a silent environment: the capture device delivers no block,
\* every demo tick has level 0 and both of its random draws miss.
SilentLoops ==
    \/ \E t \in ThreadIds : DemoTick(t, 0)
    \/ \E t \in ThreadIds : LiveEmpty(t)
    \/ \E t \in ThreadIds : ChunkTrim(t, QuietDemo, "none")
    \/ \E t \in ThreadIds : ChunkAssign(t, QuietDemo, "none")

\* Requests handled concurrently (Flask's threaded server), up to MaxReq.
NextCtl == Control(ReqIds) \/ SilentLoops

SpecCtl == Init /\ [][NextCtl]_vars

\* Requests handled one at a time, beside the loop threads.
NextSeq == Control({1}) \/ SilentLoops

SpecSeq == Init /\ [][NextSeq]_vars

\* ---- the data plane
\* Levels are in thousandths (the speech threshold of line 837 is 0.010);
\* level 0 marks the start values of the history.  The
\* environment produces audio only while fewer than MaxNew non-zero levels
\* were recorded, so that the histories and the sinks stay finitely many.
Recorded == Cardinality({i \in 1..Len(expected_history) : expected_history[i] # 0})

QuietLevels == IF Recorded < MaxNew THEN {1, 2} ELSE {}

\* a captured block too quiet for speech in which the classifier finds nothing
QuietFrame(level) ==
    [level |-> level, dets |-> <<>>, channels |-> 2,
     left |-> EnergyScale, right |-> EnergyScale]

\* a captured block with speech in it and two detections, one on each side
\* of the confidence floor
LoudFrames ==
    IF Recorded < MaxNew
      THEN {[level |-> 11,
             dets |-> <<[sound |-> "Doorbell", confidence |-> 90],
                        [sound |-> "Music", confidence |-> 20]>>,
             channels |-> 2, left |-> EnergyScale, right |-> 2 * EnergyScale]}
      ELSE {}

\* what the demo generators return at the current time
DemoInputs ==
    {[want_t |-> wt, want_s |-> ws,
      t_item |-> [timestamp |-> now, text |-> "demo phrase", emotion |-> "happy"],
      s_item |-> [timestamp |-> now, sound |-> "doorbell", confidence |-> 75,
                  direction |-> "left", angle |-> Frac(225, 1)]] : wt \in BOOLEAN, ws \in BOOLEAN}

OldTranscription == [timestamp |-> StartTime, text |-> "demo phrase", emotion |-> "happy"]
OldAlert == [timestamp |-> StartTime, sound |-> "doorbell", confidence |-> 75,
             direction |-> "left", angle |-> Frac(225, 1)]

Running(kind) == [kind |-> kind, pc |-> "loop", tmp |-> <<>>, frame |-> <<>>]

\* The loops that can be running together once the control plane has let
\* them start (each of these flag and thread settings is reached under
\* SpecCtl): the live loop alone, the demo loop alone, two live loops, a
\* live loop beside the demo loop.
LoopSets ==
    {<<"live">>, <<"demo">>, <<"live", "live">>, <<"live", "demo">>}

ThreadsOf(ls) ==
    [t \in ThreadIds |-> IF t <= Len(ls) THEN Running(ls[t]) ELSE NoThread]

HasLoop(ls, kind) == \E i \in 1..Len(ls) : ls[i] = kind

\* The control state with the loops ls running: the live ones after
\* python echolens_api.py and a first request, those with a demo loop after
\* an import, a first request and an accepted switch to demo mode.
RunningControl(ls) ==
    /\ boot = IF HasLoop(ls, "demo") THEN "wsgi" ELSE "main"
    /\ first_request_done = TRUE
    /\ now = StartTime + COOLDOWN
    /\ threads = ThreadsOf(ls)
    /\ is_processing_audio = HasLoop(ls, "live")
    /\ is_demo_processing = HasLoop(ls, "demo")
    /\ demo_mode = HasLoop(ls, "demo")
    /\ last_restart_time = IF HasLoop(ls, "demo") THEN StartTime + COOLDOWN ELSE StartTime
    /\ last_setmode_call = IF HasLoop(ls, "demo") THEN StartTime + COOLDOWN ELSE 0
    /\ last_mode_change = IF HasLoop(ls, "demo") THEN StartTime + COOLDOWN ELSE 0
    /\ req = [r \in ReqIds |-> IdleReq]
    /\ last_response = IF HasLoop(ls, "demo")
                         THEN [op |-> "set_demo_mode", result |-> "ok"]
                         ELSE NoResponse
    /\ flag_cleared_by = [live |-> IF ls = <<"demo">> THEN "finally" ELSE "init",
                          demo |-> "init"]
    /\ iteration_prefs = [t \in ThreadIds |-> default_preferences]
    /\ speech_log = {}

\* A pipeline that has been running for a while: the loops are in their
\* while, each sink is empty or one item short of 100 items.
InitData ==
    /\ \E ls \in LoopSets : RunningControl(ls)
    /\ audio_level_history = InitHistory
    /\ expected_history = InitHistory
    /\ \E n \in {0, SINK_CAP - 1} : transcriptions = [i \in 1..n |-> OldTranscription]
    /\ \E n \in {0, SINK_CAP - 1} : sound_alerts = [i \in 1..n |-> OldAlert]
    /\ audio_queue = <<>>
    /\ user_preferences = default_preferences
    /\ speech_tasks = 0
    /\ speech_pending = <<>>
    /\ NoStore

NextData ==
    \/ \E t \in ThreadIds, level \in QuietLevels : DemoTick(t, level)
    \/ \E t \in ThreadIds : LiveEmpty(t)
    \/ \E t \in ThreadIds, raised \in BOOLEAN : LiveFrame(t, raised)
    \/ \E t \in ThreadIds, d \in DemoInputs, exc \in {"none", "sounds", "speech"} :
           ChunkTrim(t, d, exc)
    \/ \E t \in ThreadIds, d \in DemoInputs, exc \in {"none", "sounds", "speech"} :
           ChunkAssign(t, d, exc)
    \/ \E level \in QuietLevels : audio_callback(QuietFrame(level))
    \/ \E f \in LoudFrames : audio_callback(f)
    \/ \E text \in {"", "hello"} :
           process_speech(text, [object |-> TRUE, emotion |-> "happy"])

SpecData == InitData /\ [][NextData]_vars

\* ------------------------------------------------------------- claims
\* A loop thread is inside its while loop: in an iteration, or at a while
\* test that will start one.
InLoop(t) ==
    \/ threads[t].pc \in {"trim", "assign"}
    \/ threads[t].pc = "loop" /\ LoopCondition(t)

\* C1: a live loop and a demo loop are never inside their while loops at the
\* same time.
C1_OneLoopAtATime ==
    ~ \E l \in LiveThreads, d \in DemoThreads : InLoop(l) /\ InLoop(d)

\* C2: at most one live loop thread and at most one demo loop thread exists
\* at any time, counting a thread that was started and has not yet raised its
\* flag and a thread that was stopped and has not yet ended.
C2_NoDuplicateLoops ==
    /\ Cardinality(LiveThreads) <= 1
    /\ Cardinality(DemoThreads) <= 1

\* C3: /api/start, reaching its running test while is_processing_audio is
\* true and demo_mode false, returns already_running at once, starts no
\* thread and leaves last_restart_time and every flag as they were.
C3_StartAlreadyRunning ==
    [][\A r \in ReqIds :
         (req[r].pc = "st_check" /\ req'[r] # req[r]
            /\ is_processing_audio /\ ~demo_mode)
         => /\ req'[r].pc = "idle"
            /\ last_response' = [op |-> "start", result |-> "already_running"]
            /\ threads' = threads
            /\ UNCHANGED flags]_vars

C3_Witness ==
    /\ last_response = [op |-> "start", result |-> "already_running"]
    /\ is_processing_audio /\ ~demo_mode
    /\ Cardinality(LiveThreads) = 1

\* C4: a /api/set-demo-mode call that arrives less than 2 seconds after the
\* arrival of an earlier /api/set-demo-mode call, one that changed the mode,
\* is rejected as throttled and leaves demo_mode as it was.
C4_SecondCallThrottled ==
    [][\A r \in ReqIds, b \in BOOLEAN :
         (SetModeThrottle(r, b) /\ last_setmode_call # 0
            /\ now - last_setmode_call < COOLDOWN)
         => /\ req'[r].pc = "idle"
            /\ last_response' = [op |-> "set_demo_mode", result |-> "throttled"]
            /\ demo_mode' = demo_mode]_vars

\* C5: two changes of the value of demo_mode are at least 2 seconds apart.
C5_ChangesApart ==
    [][(demo_mode' # demo_mode /\ last_mode_change # 0)
         => now - last_mode_change >= COOLDOWN]_vars

\* C6: /api/stop leaves is_processing_audio false and touches nothing else;
\* on a pipeline whose flag is already false it returns not_running at once
\* and changes nothing, so a second stop right after a first changes nothing.
C6_StopIdempotent ==
    [][\A r \in ReqIds :
         StopCheck(r)
         => /\ is_processing_audio' = FALSE
            /\ UNCHANGED <<demo_mode, is_demo_processing, last_restart_time>>
            /\ threads' = threads
            /\ UNCHANGED data
            /\ ~is_processing_audio
                 => /\ req' = req
                    /\ last_response' = [op |-> "stop", result |-> "not_running"]]_vars

\* a stop found the flag already cleared by an earlier stop
C6_Witness ==
    /\ last_response = [op |-> "stop", result |-> "not_running"]
    /\ flag_cleared_by.live = "stop"
    /\ ~is_processing_audio

\* C10: no step of a chunk ends a loop, and a loop leaves its while only
\* after a stop or a mode switch cleared its flag.
C10_LoopEndsOnlyOnStop ==
    [][\A t \in ThreadIds :
         /\ (threads[t].pc \in {"trim", "assign"} \/ InLoop(t))
              => threads'[t].pc \in {"loop", "trim", "assign"}
         /\ (threads[t].pc = "loop" /\ threads'[t].pc = "finally")
              => IF threads[t].kind = "live"
                   THEN flag_cleared_by.live \in {"stop", "switch"}
                   ELSE ~demo_mode \/ flag_cleared_by.demo = "switch"]_vars

\* C7: the audio level history never holds more than MAX_AUDIO_HISTORY
\* elements, in any state in which /api/audio-levels may read it.
C7_HistoryBounded == Len(audio_level_history) <= MAX_AUDIO_HISTORY

\* C8: whenever no thread is between its append and its trim, the history is
\* the last 20 elements of the initial history followed by the recorded
\* levels in the order of their appends.
C8_NoLevelLost ==
    (\A t \in ThreadIds : threads[t].pc \notin {"trim", "assign"})
        => audio_level_history = expected_history

\* C9: neither in-memory sink ever holds more than 100 items once the step
\* that appended to it is over.
C9_SinksBounded ==
    /\ Len(transcriptions) <= SINK_CAP
    /\ Len(sound_alerts) <= SINK_CAP
\* ------------------------------------------- the control plane, scheduled
\* One step of loop thread t in the silent environment.
ThreadStep(t) ==
    \/ \E ok \in BOOLEAN : LiveOpen(t, ok)
    \/ DemoOpen(t)
    \/ LoopExit(t)
    \/ LoopFinally(t)
    \/ DemoTick(t, 0)
    \/ ChunkTrim(t, QuietDemo, "none")
    \/ ChunkAssign(t, QuietDemo, "none")

\* A handler that was entered goes on to its end.
HandlerStep(r) ==
    \/ SetModeChange(r)
    \/ SetModeWake(r)
    \/ StartCheck(r)
    \/ StartSpawn(r)
    \/ StopWake(r)

\* SpecSeq where the operating system runs every thread that can run: a loop
\* thread is not starved, a handler that was entered returns.
FairSeq ==
    /\ SpecSeq
    /\ \A t \in ThreadIds : WF_vars(ThreadStep(t))
    /\ WF_vars(HandlerStep(1))
    /\ WF_vars(Tick)

\* /api/stop has returned stopped and no request was made since.
StoppedQuiet ==
    /\ last_response = [op |-> "stop", result |-> "stopped"]
    /\ \A r \in ReqIds : req[r].pc = "idle"

\* C11: if from some point on the last request is a stop that returned
\* stopped (no start and no mode switch follows; the first-request hook ran
\* before it), then eventually no live loop thread exists, for good.
C11_StopEndsLoop == <>[]StoppedQuiet => <>[](LiveThreads = {})

\* ------------------------------------------------ one frame, live mode
\* Energies near epsilon and energies of ordinary size.
Energies == (0..MaxEnergy) \cup {k * EnergyScale : k \in 1..MaxEnergy}

\* What the classifier may return for a frame (confidences in percent).
Detections ==
    {<<>>,
     <<[sound |-> "doorbell", confidence |-> 90]>>,
     <<[sound |-> "doorbell", confidence |-> 90], [sound |-> "Music", confidence |-> 20]>>,
     <<[sound |-> "Speech", confidence |-> 31], [sound |-> "Dog", confidence |-> 30]>>}

StereoFrames ==
    {[level |-> 1, dets |-> d, channels |-> 2, left |-> l, right |-> r] :
        d \in Detections, l \in Energies, r \in Energies}

\* A frame with one channel; its energy is kept in left, right is not used.
MonoFrames ==
    {[level |-> 1, dets |-> d, channels |-> 1, left |-> l, right |-> 0] :
        d \in Detections, l \in Energies}

\* The live loop alone, with one captured frame waiting in the queue.
InitDir ==
    /\ RunningControl(<<"live">>)
    /\ audio_level_history = InitHistory
    /\ expected_history = InitHistory
    /\ transcriptions = <<>>
    /\ sound_alerts = <<>>
    /\ \E f \in StereoFrames \cup MonoFrames : audio_queue = <<f>>
    /\ user_preferences = default_preferences
    /\ speech_tasks = 0
    /\ speech_pending = <<>>
    /\ NoStore

NextDir ==
    \/ \E t \in ThreadIds, raised \in BOOLEAN : LiveFrame(t, raised)
    \/ \E t \in ThreadIds : LiveEmpty(t)
    \/ \E t \in ThreadIds : ChunkTrim(t, QuietDemo, "none")
    \/ \E t \in ThreadIds : ChunkAssign(t, QuietDemo, "none")

SpecDir == InitDir /\ [][NextDir]_vars

\* The frames live loop threads are processing.
FramesInHand ==
    {threads[t].frame : t \in {x \in LiveThreads : threads[x].pc \in {"trim", "assign"}}}

RECURSIVE Gcd(_, _)
Gcd(a, b) == IF b = 0 THEN a ELSE Gcd(b, a % b)

\* a finite fraction in lowest terms
Norm(q) ==
    IF q.den = 0 THEN q
    ELSE LET g == Gcd(Abs(q.num), q.den) IN Frac(q.num \div g, q.den \div g)

\* fraction q is finite and has the value of the whole number x
FracIs(q, x) == Norm(q) = Frac(x, 1)

\* fractions a and b are finite and have the same value
SameValue(a, b) == a.den # 0 /\ b.den # 0 /\ Norm(a) = Norm(b)

\* the alert the claim expects for detection d of frame f
ExpectedAlert(f, d) ==
    [timestamp |-> now, sound |-> d.sound, confidence |-> d.confidence,
     direction |-> direction_info(f).direction, angle |-> direction_info(f).angle]

Qualifies(d) == d.confidence > SOUND_CONF_MIN

\* the detections of f that clear the floor, in the classifier's order
Qualifying(f) == SelectSeq(f.dets, Qualifies)

\* C16: with sound detection enabled, the step of a live thread that runs the
\* stages of frame f appends one alert for each detection of f above the
\* floor, in order, each with that detection's label and confidence and the
\* direction and angle of f, and nothing else.
C16_OneAlertPerDetection ==
    [][\A t \in LiveThreads :
         (/\ threads[t].pc \in {"trim", "assign"}
          /\ threads'[t].pc = "loop"
          /\ user_preferences.sound_detection_enabled)
         => LET f == threads[t].frame
                q == Qualifying(f)
            IN sound_alerts' = sound_alerts \o [i \in 1..Len(q) |-> ExpectedAlert(f, q[i])]]_vars

\* a right-heavy frame with the one detection doorbell/0.9 gave one alert
C16_Witness ==
    /\ Len(sound_alerts) = 1
    /\ sound_alerts[1].sound = "doorbell" /\ sound_alerts[1].direction = "right"
    /\ sound_alerts[1].confidence = 90
    /\ \A t \in ThreadIds : threads[t].pc \notin {"trim", "assign"}

\* C18: a stereo frame whose channel energies are equal, the silent frame
\* included, has direction center and angle 0.
C18_EqualIsCenter ==
    \A f \in FramesInHand :
        (f.channels >= 2 /\ f.left = f.right)
        => /\ detect_sound_direction(f.left, f.right).direction = "center"
           /\ FracIs(detect_sound_direction(f.left, f.right).angle, 0)

\* C19: for the ratio left / (right + epsilon) = n / d of a stereo frame the
\* estimate is left with angle 270 - min(90, (ratio - 1) * 45) above 1.1,
\* right with angle 90 - min(90, (1 / ratio - 1) * 45) below 0.9, center with
\* angle 0 between, with confidence min(1, |1 - ratio| * 2); ratio 2 gives
\* left at 225; a silent left channel beside a sounding right one gives right
\* with a confidence above 0, not the error result.
C19_DirectionFormula ==
    \A f \in FramesInHand :
        f.channels >= 2 =>
          LET n == f.left
              d == f.right + EPSILON
              res == detect_sound_direction(f.left, f.right)
          IN /\ SameValue(res.confidence, Frac(Min(d, 2 * Abs(d - n)), d))
             /\ 10 * n > 11 * d
                  => /\ res.direction = "left"
                     /\ SameValue(res.angle,
                                  Frac(270 * d - Min(90 * d, 45 * (n - d)), d))
             /\ (10 * n < 9 * d /\ n > 0)
                  => /\ res.direction = "right"
                     /\ SameValue(res.angle,
                                  Frac(90 * n - Min(90 * n, 45 * (d - n)), n))
             /\ n = 0 => res.direction = "right" /\ FracIs(res.angle, 0)
             /\ (10 * n <= 11 * d /\ 10 * n >= 9 * d)
                  => res.direction = "center" /\ FracIs(res.angle, 0)
             /\ n = 2 * d => res.direction = "left" /\ FracIs(res.angle, 225)
             /\ (n = 0 /\ f.right > 0)
                  => /\ res.direction = "right"
                     /\ res.confidence.num > 0
                     /\ res # ErrorDirection

\* a frame with a silent left channel and a sounding right one is in hand
C19_Witness ==
    \E f \in FramesInHand :
        /\ f.channels >= 2 /\ f.left = 0 /\ f.right = 5 * EnergyScale
        /\ detect_sound_direction(f.left, f.right).direction = "right"

\* C20: the direction of a frame with fewer than 2 channels is unknown, with
\* angle 0 and confidence 0.
C20_MonoIsUnknown ==
    \A f \in FramesInHand :
        f.channels < 2
        => /\ direction_info(f).direction = "unknown"
           /\ FracIs(direction_info(f).angle, 0)
           /\ FracIs(direction_info(f).confidence, 0)

\* ------------------------------------------- speech tasks and /api/stop
\* The live loop alone with nothing stored yet; frames with speech arrive,
\* /api/stop is called at some time, the speech tasks end when they end.
InitStop ==
    /\ RunningControl(<<"live">>)
    /\ audio_level_history = InitHistory
    /\ expected_history = InitHistory
    /\ transcriptions = <<>>
    /\ sound_alerts = <<>>
    /\ audio_queue = <<>>
    /\ user_preferences = default_preferences
    /\ speech_tasks = 0
    /\ speech_pending = <<>>
    /\ NoStore

NextStop ==
    \/ Tick
    \/ StopCheck(1)
    \/ StopWake(1)
    \/ \E f \in LoudFrames : audio_callback(f)
    \/ \E t \in ThreadIds : LiveFrame(t, FALSE)
    \/ \E t \in ThreadIds : LiveEmpty(t)
    \/ \E t \in ThreadIds : ChunkTrim(t, QuietDemo, "none")
    \/ \E t \in ThreadIds : ChunkAssign(t, QuietDemo, "none")
    \/ \E t \in ThreadIds : LoopExit(t)
    \/ \E t \in ThreadIds : LoopFinally(t)
    \/ \E text \in {"", "hello"} \cup RecognitionErrors, a \in AnalysisResults :
           process_speech(text, a)

SpecStop == InitStop /\ [][NextStop]_vars

\* C12: a speech task that ends after the live loop has ended, and whose
\* recognition yields a text, stores its transcription at the end of the sink.
C12_TaskNotAbandoned ==
    [][\A a \in AnalysisResults :
         (process_speech("hello", a) /\ LiveThreads = {})
         => /\ Len(transcriptions') = Len(transcriptions) + 1
            /\ transcriptions'[Len(transcriptions')].text = "hello"]_vars

\* ------------------------------------- the pipeline beside the data API
\* One loop in its while, each sink empty or holding two items, every
\* preference on; the loop works while /api/preferences and /api/clear-data
\* are called.
InitApi ==
    /\ \E ls \in {<<"live">>, <<"demo">>} : RunningControl(ls)
    /\ audio_level_history = InitHistory
    /\ expected_history = InitHistory
    /\ \E n \in {0, 2} : transcriptions = [i \in 1..n |-> OldTranscription]
    /\ \E n \in {0, 2} : sound_alerts = [i \in 1..n |-> OldAlert]
    /\ audio_queue = <<>>
    /\ user_preferences = default_preferences
    /\ speech_tasks = 0
    /\ speech_pending = <<>>
    /\ NoStore

NextApi ==
    \/ \E t \in ThreadIds, level \in QuietLevels : DemoTick(t, level)
    \/ \E t \in ThreadIds : LiveEmpty(t)
    \/ \E t \in ThreadIds : LiveFrame(t, FALSE)
    \/ \E t \in ThreadIds, d \in DemoInputs : ChunkTrim(t, d, "none")
    \/ \E t \in ThreadIds, d \in DemoInputs : ChunkAssign(t, d, "none")
    \/ \E f \in LoudFrames : audio_callback(f)
    \/ \E text \in {"", "hello"}, a \in AnalysisResults : process_speech(text, a)
    \/ \E key \in PreferenceKeys, value \in BOOLEAN : manage_preferences(1, key, value)
    \/ clear_data(1)

SpecApi == InitApi /\ [][NextApi]_vars

\* C13: a step of /api/clear-data leaves both sinks empty and leaves the
\* preferences, the audio level history, the mode and the running flags as
\* they were.
C13_ClearDataFrame ==
    [][clear_data(1)
       => /\ transcriptions' = <<>>
          /\ sound_alerts' = <<>>
          /\ UNCHANGED <<user_preferences, audio_level_history, demo_mode,
                         is_processing_audio, is_demo_processing>>]_vars

\* C13 witness: /api/clear-data has answered, both sinks are empty, and the
\* state it must keep is not the initial one: a preference is off, a level
\* was recorded and a loop is running.
C13_Witness ==
    /\ last_response = [op |-> "clear_data", result |-> "success"]
    /\ transcriptions = <<>> /\ sound_alerts = <<>>
    /\ user_preferences # default_preferences
    /\ audio_level_history # InitHistory
    /\ (is_processing_audio \/ is_demo_processing)

\* the thread whose chunk runs its stages in this step
ChunkEnds(t) ==
    /\ threads[t].pc \in {"trim", "assign"}
    /\ threads'[t].pc = "loop"

\* C17: the chunk of an iteration that began while transcription was off
\* appends no transcription and starts no speech task; that of one that began
\* while sound detection was off appends no alert.
C17_StagesOffAtStart ==
    [][\A t \in ThreadIds :
         ChunkEnds(t)
         => /\ ~iteration_prefs[t].transcription_enabled
                => (transcriptions' = transcriptions /\ speech_tasks' = speech_tasks)
            /\ ~iteration_prefs[t].sound_detection_enabled
                => sound_alerts' = sound_alerts]_vars

\* ------------------------------------------------- the query endpoints
\* The sinks a query may find: up to MaxItems transcriptions with
\* timestamps of three successive instants, in any order (two speech tasks
\* may append in the opposite order of their timestamps) and with two
\* emotions; three alerts stored out of order.
MaxItems == 3

MaxLimit == 3

QueryLimits == (0 - 1)..MaxLimit

QueryPages == {1, 2}

QueryEmotions == {"", "happy"}

StoredTranscriptions ==
    {[timestamp |-> ts, text |-> tx, emotion |-> e] :
        ts \in StartTime..(StartTime + 2), tx \in {"yes"},
        e \in {"happy", "neutral"}}

StoredAlerts ==
    <<[timestamp |-> StartTime + 1, sound |-> "doorbell", confidence |-> 75,
       direction |-> "left", angle |-> Frac(225, 1)],
      [timestamp |-> StartTime, sound |-> "alarm", confidence |-> 60,
       direction |-> "center", angle |-> Zero],
      [timestamp |-> StartTime + 2, sound |-> "dog", confidence |-> 40,
       direction |-> "right", angle |-> Frac(315, 1)]>>

InitQuery ==
    /\ RunningControl(<<"live">>)
    /\ audio_level_history = InitHistory
    /\ expected_history = InitHistory
    /\ \E n \in 0..MaxItems : transcriptions \in [1..n -> StoredTranscriptions]
    /\ sound_alerts = StoredAlerts
    /\ audio_queue = <<>>
    /\ user_preferences = default_preferences
    /\ speech_tasks = 0
    /\ speech_pending = <<>>
    /\ NoStore

NextQuery ==
    \/ \E limit \in QueryLimits, page \in QueryPages, emotion \in QueryEmotions :
           get_transcriptions(1, limit, page, emotion)
    \/ \E limit \in QueryLimits, page \in QueryPages : get_sound_alerts(1, limit, page)

SpecQuery == InitQuery /\ [][NextQuery]_vars

\* the positions of the sink that hold an item matching the filter
Matching(emotion) ==
    {i \in 1..Len(transcriptions) :
        emotion = "" \/ transcriptions[i].emotion = emotion}

\* items are, newest first, the n newest of the matching items of the sink:
\* each comes from a position of its own, and no matching item left out is
\* newer than one returned.
NewestOf(items, emotion, n) ==
    /\ Len(items) = n
    /\ \A i \in 1..Len(items), j \in 1..Len(items) :
           i < j => items[i].timestamp >= items[j].timestamp
    /\ \E f \in [1..Len(items) -> Matching(emotion)] :
           /\ \A i \in 1..Len(items) : transcriptions[f[i]] = items[i]
           /\ \A i \in 1..Len(items), j \in 1..Len(items) : i # j => f[i] # f[j]
           /\ \A k \in Matching(emotion) :
                  (\A i \in 1..Len(items) : f[i] # k)
                  => \A i \in 1..Len(items) :
                         transcriptions[k].timestamp <= items[i].timestamp

\* C14: a query of the transcriptions with a limit of at least 0 answers
\* with the matching items (all items without a filter), newest first, cut
\* at the limit, and with the number of matching items as total.
C14_QueryNewestFirst ==
    [][\A limit \in QueryLimits, page \in QueryPages, emotion \in QueryEmotions :
         (get_transcriptions(1, limit, page, emotion) /\ limit >= 0)
         => /\ last_response'.result.total = Cardinality(Matching(emotion))
            /\ NewestOf(last_response'.result.transcriptions, emotion,
                        Min(limit, Cardinality(Matching(emotion))))]_vars

\* C14 witness: a filtered query has answered with fewer items than match,
\* over a sink that is not stored newest first.
C14_Witness ==
    /\ last_response.op = "get_transcriptions"
    /\ Len(last_response.result.transcriptions) = 2
    /\ last_response.result.total = 3
    /\ last_response.result.transcriptions[1].timestamp
           > last_response.result.transcriptions[2].timestamp
    /\ transcriptions[1].timestamp < transcriptions[2].timestamp
    /\ \A i \in 1..Len(transcriptions) : transcriptions[i].emotion = "happy"

\* the number of items on page p of n items with L items a page
PageSize(n, limit, page) ==
    IF n - (page - 1) * limit <= 0 THEN 0 ELSE Min(limit, n - (page - 1) * limit)

\* C15: the query for page p with a limit L > 0 answers with the items of
\* the positions (p-1)*L to p*L-1 of the newest-first order, so with as many
\* items as that page holds.
C15_Paginated ==
    [][/\ \A limit \in 1..MaxLimit, page \in QueryPages, emotion \in QueryEmotions :
            get_transcriptions(1, limit, page, emotion)
            => Len(last_response'.result.transcriptions)
                   = PageSize(Cardinality(Matching(emotion)), limit, page)
       /\ \A limit \in 1..MaxLimit, page \in QueryPages :
            get_sound_alerts(1, limit, page)
            => Len(last_response'.result.soundAlerts)
                   = PageSize(Len(sound_alerts), limit, page)]_vars

\* ------------------------------------------------ the emotion analyzer
\* The texts analysed: none, one word or two words with a blank between,
\* of words in either case that hit one category, several or none.
Words ==
    {<<"h", "a", "p", "p", "y">>,
     <<"S", "a", "d">>,
     <<"W", "O", "W">>,
     <<"h", "i">>,
     <<"u", "p", "s", "e", "t">>,
     <<"o", "k", "a", "y">>}

Texts == {<<>>} \cup Words \cup {a \o <<" ">> \o b : a \in Words, b \in Words}

\* the characters of the text "hello" the recognizer returns
HelloText == <<"h", "e", "l", "l", "o">>

\* The live loop alone with nothing stored; frames with speech arrive and
\* their speech tasks call the analyzer, and /api/analyze/text is called.
NextEmotion ==
    \/ \E text \in Texts : analyze_text(1, text)
    \/ \E configured \in BOOLEAN, remote \in RemoteOutcomes :
           analyze_text_return(1, configured, remote)
    \/ \E f \in LoudFrames : audio_callback(f)
    \/ \E t \in ThreadIds : LiveFrame(t, FALSE)
    \/ \E t \in ThreadIds : LiveEmpty(t)
    \/ \E t \in ThreadIds : ChunkTrim(t, QuietDemo, "none")
    \/ \E t \in ThreadIds : ChunkAssign(t, QuietDemo, "none")
    \/ \E text \in {"", "hello"}, configured \in BOOLEAN, remote \in RemoteOutcomes :
           process_speech(text, analyze_emotion_with_gemini(HelloText, configured, remote))

SpecEmotion == InitStop /\ [][NextEmotion]_vars

\* the step in which the pending /api/analyze/text request is answered
Answered == req[1].pc = "remote" /\ req'[1].pc = "idle"

\* the remote model is not there, fails, or answers something that is not
\* an object with the emotion field
NoUsableAnswer(configured, remote) ==
    ~configured \/ remote # "object"

\* C21: whenever the remote model is not configured, raises or answers
\* malformed, the analyzer returns what the keyword fallback returns; and a
\* speech task with a recognized text stores its transcription whatever the
\* remote model answered.
C21_FallbackOnMalformed ==
    [][/\ \A configured \in BOOLEAN, remote \in RemoteOutcomes :
            (Answered /\ NoUsableAnswer(configured, remote)
               /\ analyze_text_return(1, configured, remote))
            => last_response'.result = provide_fallback_emotion_analysis(req[1].arg)
       /\ \A configured \in BOOLEAN, remote \in RemoteOutcomes :
            process_speech("hello", analyze_emotion_with_gemini(HelloText, configured, remote))
            => Len(transcriptions') = Len(transcriptions) + 1]_vars

\* the score the claim gives category i for a lower-cased text
KeywordsFound(i, lowered) ==
    Cardinality({k \in emotion_keywords[i].keywords : Occurs(k, lowered)})

\* the scores of the first n categories
RECURSIVE StatedScores(_, _)
StatedScores(n, lowered) ==
    IF n = 0 THEN <<>>
    ELSE Append(StatedScores(n - 1, lowered), KeywordsFound(n, lowered))

\* res is what the claim says the fallback returns for text
FallbackAsStated(text, res) ==
    LET n == Len(emotion_keywords)
        score == StatedScores(n, LowerText(text))
        total == Sum(score)
    IN /\ IF \A i \in 1..n : score[i] = 0
            THEN res.emotion = "neutral" /\ SameValue(res.confidence, Frac(1, 2))
            ELSE \E i \in 1..n :
                    /\ res.emotion = emotion_keywords[i].emotion
                    /\ \A j \in 1..n : score[j] <= score[i]
                    /\ \A j \in 1..(i - 1) : score[j] < score[i]
                    /\ SameValue(res.confidence,
                                 FracMin(Frac(7, 10),
                                         Frac(score[i] * 7, (total + 1) * 10)))
                    /\ res.confidence.num * 10 <= 7 * res.confidence.den
       /\ SameValue(res.intensity, Frac(res.confidence.num * 8, res.confidence.den * 10))
       /\ text = <<"h", "a", "p", "p", "y">> => res.emotion = "happy"

\* C22: for every text the keyword fallback returns neutral with confidence
\* 0.5 when no keyword occurs, else the first category of the highest score
\* with confidence min(0.7, score/(total+1)*0.7), and intensity
\* confidence*0.8.
C22_KeywordFallback ==
    [][(Answered /\ analyze_text_return(1, FALSE, "raises"))
         => FallbackAsStated(req[1].arg, last_response'.result)]_vars

\* C22 witness: the fallback has answered happy with confidence 0.7/3, the
\* value for one keyword of happy tied with one of neutral.
C22_Witness ==
    /\ last_response.op = "analyze_text"
    /\ "source" \in DOMAIN last_response.result
    /\ last_response.result.source = "fallback"
    /\ last_response.result.emotion = "happy"
    /\ SameValue(last_response.result.confidence, Frac(7, 30))

\* C23: a speech task whose recognition ends in no speech or in a service
\* error appends nothing and starts no other task, leaves the loop threads
\* and the running flag as they are, and logs the service error only.
C23_RecognitionFailure ==
    [][\A err \in RecognitionErrors, a \in AnalysisResults :
         process_speech(err, a)
         => /\ transcriptions' = transcriptions
            /\ speech_tasks' = speech_tasks - 1
            /\ UNCHANGED <<threads, is_processing_audio, audio_queue>>
            /\ speech_log' = IF err = "RequestError"
                               THEN speech_log \cup {"Speech recognition service error"}
                               ELSE speech_log]_vars

\* C23 witness: a speech task has logged the service error, no speech task
\* is left, nothing was stored and the live loop is in its while.
C23_Witness ==
    /\ speech_log = {"Speech recognition service error"}
    /\ speech_tasks = 0
    /\ speech_pending = <<>>
    /\ transcriptions = <<>>
    /\ is_processing_audio
    /\ \E t \in ThreadIds : threads[t].kind = "live" /\ threads[t].pc = "loop"

\* ------------------------------------------- the pipeline and the store
\* a captured block with speech in it and two detections above the
\* confidence floor
StoreFrames ==
    IF Recorded < MaxNew
      THEN {[level |-> 11,
             dets |-> <<[sound |-> "Doorbell", confidence |-> 90],
                        [sound |-> "Dog", confidence |-> 60]>>,
             channels |-> 2, left |-> 2 * EnergyScale, right |-> EnergyScale]}
      ELSE {}

\* One loop in its while and nothing stored yet; the process has started
\* without a document store or with one, whose saves succeed or raise.
InitStore ==
    /\ \E ls \in {<<"live">>, <<"demo">>} : RunningControl(ls)
    /\ audio_level_history = InitHistory
    /\ expected_history = InitHistory
    /\ transcriptions = <<>>
    /\ sound_alerts = <<>>
    /\ audio_queue = <<>>
    /\ user_preferences = default_preferences
    /\ speech_tasks = 0
    /\ speech_pending = <<>>
    /\ db_initialized \in BOOLEAN
    /\ db_transcriptions = <<>>
    /\ db_sound_alerts = <<>>

NextStore ==
    \/ \E t \in ThreadIds, level \in QuietLevels : DemoTick(t, level)
    \/ \E t \in ThreadIds : LiveEmpty(t)
    \/ \E t \in ThreadIds : LiveFrame(t, FALSE)
    \/ \E t \in ThreadIds, d \in DemoInputs : ChunkTrim(t, d, "none")
    \/ \E t \in ThreadIds, d \in DemoInputs : ChunkAssign(t, d, "none")
    \/ \E f \in StoreFrames : audio_callback(f)
    \/ \E text \in {"", "hello"} :
           process_speech(text, [object |-> TRUE, emotion |-> "happy"])

SpecStore == InitStore /\ [][NextStore]_vars

\* what a chunk of thread t does to the memory when there is no store
StorelessChunk(t) ==
    IF threads[t].kind = "demo"
      THEN \E d \in DemoInputs :
              /\ transcriptions' = DemoTranscriptions(transcriptions, d.want_t, d.t_item)
              /\ sound_alerts' = DemoSoundAlerts(sound_alerts, d.want_s, d.s_item)
              /\ speech_tasks' = speech_tasks
      ELSE /\ transcriptions' = transcriptions
           /\ sound_alerts' = LiveSoundAlerts(sound_alerts, threads[t].frame, "none")
           /\ speech_tasks' = LiveSpeechTasks(speech_tasks, threads[t].frame, "none")

\* what a speech task does to the memory when there is no store
StorelessSpeech ==
    /\ transcriptions' \in
           {transcriptions,
            Append(transcriptions,
                   [timestamp |-> now, text |-> "hello", emotion |-> "happy"])}
    /\ sound_alerts' = sound_alerts

\* C24: with a store, whether its saves succeed or raise, every chunk and
\* every speech task changes the sinks, the level history and the flags as
\* it does without a store, and the loop goes on.
C24_StoreIndependent ==
    [][/\ \A t \in ThreadIds :
            ChunkEnds(t) => (StorelessChunk(t) /\ UNCHANGED flags
                             /\ threads'[t].kind = threads[t].kind)
       /\ speech_tasks' = speech_tasks - 1
            => (StorelessSpeech /\ UNCHANGED <<flags, threads, audio_level_history>>)]_vars

\* C24 witness: with a store none of whose saves succeeded, a frame's two
\* alerts and a transcription are in memory and the loop is in its while.
C24_Witness ==
    /\ db_initialized
    /\ db_sound_alerts = <<>> /\ db_transcriptions = <<>>
    /\ Len(sound_alerts) = 2 /\ Len(transcriptions) = 1
    /\ is_processing_audio
    /\ \E t \in ThreadIds : threads[t].kind = "live" /\ threads[t].pc = "loop"

\* C25: when the capture device cannot be opened, a demo loop becomes active.
C25_FallsBackToDemo ==
    (\E t \in ThreadIds : threads[t].pc = "failed")
        ~> (is_demo_processing /\ \E t \in ThreadIds : threads[t].kind = "demo")

\* a loop of the mode m (TRUE: demo, FALSE: live) is in its while
LoopActive(m) ==
    IF m THEN is_demo_processing
              /\ \E t \in ThreadIds : threads[t].kind = "demo" /\ InLoop(t)
         ELSE is_processing_audio
              /\ \E t \in ThreadIds : threads[t].kind = "live" /\ InLoop(t)

\* The demo loop in its while since a switch to demo mode that was accepted
\* a cooldown before the instant StartTime, in a process started early enough
\* for that (the handlers use the clock only in differences); nothing is
\* stored.
InitSwitch ==
    /\ boot = "wsgi"
    /\ first_request_done = TRUE
    /\ now = StartTime
    /\ threads = ThreadsOf(<<"demo">>)
    /\ is_processing_audio = FALSE
    /\ is_demo_processing = TRUE
    /\ demo_mode = TRUE
    /\ last_restart_time = StartTime - COOLDOWN
    /\ last_setmode_call = StartTime - COOLDOWN
    /\ last_mode_change = StartTime - COOLDOWN
    /\ req = [r \in ReqIds |-> IdleReq]
    /\ last_response = [op |-> "set_demo_mode", result |-> "ok"]
    /\ flag_cleared_by = [live |-> "finally", demo |-> "init"]
    /\ iteration_prefs = [t \in ThreadIds |-> default_preferences]
    /\ speech_log = {}
    /\ audio_level_history = InitHistory
    /\ expected_history = InitHistory
    /\ transcriptions = <<>>
    /\ sound_alerts = <<>>
    /\ audio_queue = <<>>
    /\ user_preferences = default_preferences
    /\ speech_tasks = 0
    /\ speech_pending = <<>>
    /\ NoStore

\* The mode switches and the starts of one client, one request at a time,
\* and the loops in a silent environment.
NextSwitch ==
    \/ Tick
    \/ \E b \in BOOLEAN : SetModeThrottle(1, b)
    \/ SetModeChange(1)
    \/ SetModeWake(1)
    \/ StartMode(1)
    \/ StartCheck(1)
    \/ StartSpawn(1)
    \/ \E t \in ThreadIds, ok \in BOOLEAN : LiveOpen(t, ok)
    \/ \E t \in ThreadIds : DemoOpen(t)
    \/ \E t \in ThreadIds : LoopExit(t)
    \/ \E t \in ThreadIds : LoopFinally(t)
    \/ SilentLoops

\* NextSwitch where every thread that can run is run and a handler that was
\* entered returns.
FairSwitch ==
    /\ InitSwitch /\ [][NextSwitch]_vars
    /\ \A t \in ThreadIds : WF_vars(ThreadStep(t))
    /\ WF_vars(HandlerStep(1))
    /\ WF_vars(Tick)

\* the mode was changed to m by a set-demo-mode request that has returned
SwitchedTo(m) ==
    /\ demo_mode = m
    /\ last_mode_change # 0
    /\ \A r \in ReqIds : req[r].pc = "idle"

\* C26: after a set-demo-mode request has changed the mode to m and
\* returned, a loop of the mode m is eventually active, for demo and for
\* live.
C26_SwitchStartsLoop ==
    \A m \in BOOLEAN : SwitchedTo(m) ~> LoopActive(m)

\* C27: a live iteration that finds the audio queue empty changes nothing:
\* the level history, both sinks, the flags and the queue are as before and
\* no speech task was dispatched.
C27_EmptyQueueFrame ==
    [][\A t \in ThreadIds :
          LiveEmpty(t) =>
              UNCHANGED <<audio_level_history, transcriptions, sound_alerts, flags,
                          audio_queue, speech_tasks>>]_vars

\* a live loop at its iteration with an empty queue, after frames were
\* processed: alerts were appended and a speech task is pending
C27_Witness ==
    \E t \in ThreadIds :
        /\ threads[t].kind = "live" /\ threads[t].pc = "loop"
        /\ LoopCondition(t)
        /\ audio_queue = <<>>
        /\ expected_history # InitHistory
        /\ sound_alerts # <<>>
        /\ speech_tasks > 0

\* C28: the live loop never waits for a speech task.  In every state, however
\* many speech tasks are pending, a live loop at its iteration with a frame
\* in the queue can take the frame, and a live loop inside an iteration can
\* go on with its next stage.
C28_LoopNotBlocked ==
    \A t \in ThreadIds :
        threads[t].kind = "live" =>
            /\ (threads[t].pc = "loop" /\ LoopCondition(t) /\ audio_queue # <<>>)
                   => ENABLED LiveFrame(t, FALSE)
            /\ threads[t].pc = "trim" => ENABLED ChunkTrim(t, QuietDemo, "none")
            /\ threads[t].pc = "assign" => ENABLED ChunkAssign(t, QuietDemo, "none")

\* a speech task is pending, the live loop is at its iteration and the next
\* frame is in the queue
C28_Witness ==
    /\ speech_tasks > 0
    /\ audio_queue # <<>>
    /\ \E t \in ThreadIds :
           threads[t].kind = "live" /\ threads[t].pc = "loop" /\ LoopCondition(t)

\* after is before with one item added at its end
OneAppended(before, after) ==
    /\ Len(after) = Len(before) + 1
    /\ \A i \in 1..Len(before) : after[i] = before[i]

\* C29: the sinks are append-only.  In every step each of the two sinks is
\* unchanged, or has exactly one new item at its end and its old items as
\* they were, or is emptied by /api/clear-data.
C29_AppendOnly ==
    [][/\ \/ transcriptions' = transcriptions
          \/ OneAppended(transcriptions, transcriptions')
          \/ clear_data(1) /\ transcriptions' = <<>>
       /\ \/ sound_alerts' = sound_alerts
          \/ OneAppended(sound_alerts, sound_alerts')
          \/ clear_data(1) /\ sound_alerts' = <<>>]_vars

\* both sinks were emptied by /api/clear-data and each has two items appended
\* since
C29_Witness ==
    /\ last_response = [op |-> "clear_data", result |-> "success"]
    /\ Len(transcriptions) = 2 /\ Len(sound_alerts) = 2
    /\ \A i \in 1..2 : transcriptions[i] # OldTranscription /\ sound_alerts[i] # OldAlert

\* ---- the order of the sinks
\* The live loop running, both sinks empty, nothing stored.
InitOrder ==
    /\ RunningControl(<<"live">>)
    /\ audio_level_history = InitHistory
    /\ expected_history = InitHistory
    /\ transcriptions = <<>>
    /\ sound_alerts = <<>>
    /\ audio_queue = <<>>
    /\ user_preferences = default_preferences
    /\ speech_tasks = 0
    /\ speech_pending = <<>>
    /\ NoStore

\* The live loop, the capture callback, the clock and the speech tasks,
\* whose halves run in any interleaving.
NextOrder ==
    \/ Tick
    \/ \E t \in ThreadIds : LiveEmpty(t)
    \/ \E t \in ThreadIds : LiveFrame(t, FALSE)
    \/ \E t \in ThreadIds : ChunkTrim(t, QuietDemo, "none")
    \/ \E t \in ThreadIds : ChunkAssign(t, QuietDemo, "none")
    \/ \E f \in LoudFrames : audio_callback(f)
    \/ process_speech_build("hello", [object |-> TRUE, emotion |-> "happy"])
    \/ \E i \in 1..MaxNew : process_speech_append(i)

SpecOrder == InitOrder /\ [][NextOrder]_vars

\* the items of a sink are in non-decreasing order of their timestamps
TimestampOrdered(sink) ==
    \A i \in 1..(Len(sink) - 1) : sink[i].timestamp <= sink[i + 1].timestamp

\* C30: in every reachable state the items of each sink are in
\* non-decreasing timestamp order, also when speech tasks or two loops run
\* concurrently.
C30_SinksTimestampOrdered ==
    /\ TimestampOrdered(transcriptions)
    /\ TimestampOrdered(sound_alerts)

\* ---- the audio queue
\* One live loop or two in their while, with two captured blocks waiting in
\* the queue, a quiet one before a loud one; sinks empty, nothing stored.
InitQueue ==
    /\ \E ls \in {<<"live">>, <<"live", "live">>} : RunningControl(ls)
    /\ audio_level_history = InitHistory
    /\ expected_history = InitHistory
    /\ transcriptions = <<>>
    /\ sound_alerts = <<>>
    /\ \E f \in LoudFrames : audio_queue = <<QuietFrame(1), f>>
    /\ user_preferences = default_preferences
    /\ speech_tasks = 0
    /\ speech_pending = <<>>
    /\ NoStore

NextQueue ==
    \/ \E t \in ThreadIds : LiveEmpty(t)
    \/ \E t \in ThreadIds, raised \in BOOLEAN : LiveFrame(t, raised)
    \/ \E t \in ThreadIds : ChunkTrim(t, QuietDemo, "none")
    \/ \E t \in ThreadIds : ChunkAssign(t, QuietDemo, "none")
    \/ \E level \in QuietLevels : audio_callback(QuietFrame(level))
    \/ \E f \in LoudFrames : audio_callback(f)
    \/ process_speech("hello", [object |-> TRUE, emotion |-> "happy"])

SpecQueue == InitQueue /\ [][NextQueue]_vars

\* the loop thread t has taken the first frame of the queue and no other
\* thread has moved
TakenBy(t) ==
    /\ threads[t].kind = "live" /\ threads[t].pc = "loop"
    /\ audio_queue' = Tail(audio_queue)
    /\ threads'[t].frame \in {Head(audio_queue), <<>>}
    /\ \A u \in ThreadIds \ {t} : threads'[u] = threads[u]

\* C31: a frame in the queue is consumed exactly once and in the order of
\* the pushes.  In every step the queue is unchanged, or has one frame more
\* at its end, or has lost its first frame to the iteration of exactly one
\* loop thread; and a thread gets the frame of its iteration only by taking
\* the first frame out of the queue.
C31_ConsumedOnce ==
    [][/\ \/ audio_queue' = audio_queue
          \/ OneAppended(audio_queue, audio_queue')
          \/ \E t \in ThreadIds : TakenBy(t)
       /\ \A t \in ThreadIds :
              threads'[t].frame \notin {threads[t].frame, <<>>}
                  => audio_queue # <<>> /\ TakenBy(t)
                        /\ threads'[t].frame = Head(audio_queue)]_vars

\* two live loops have each taken one of the two frames, the first loop the
\* quiet frame and the second the loud one, and the queue is empty
C31_Witness ==
    /\ audio_queue = <<>>
    /\ \E t, u \in LiveThreads :
           /\ t # u
           /\ threads[t].frame = QuietFrame(1)
           /\ threads[u].frame # <<>> /\ threads[u].frame # QuietFrame(1)

\* C32: when a stage raises while a live loop processes a frame, the frame
\* leaves no output behind: the step in which the iteration ends on the
\* exception leaves the alerts sink and the speech tasks as they were.
C32_StageErrorIsNoOp ==
    [][\A t \in LiveThreads, exc \in {"sounds", "speech"} :
          (ChunkTrim(t, QuietDemo, exc) \/ ChunkAssign(t, QuietDemo, exc))
              => /\ sound_alerts' = sound_alerts
                 /\ speech_tasks' = speech_tasks]_vars

\* ---- the store with saves that succeed
\* a step in which every save that is called succeeds: the alert saves of a
\* chunk (lines 775-784, 824-833) and the transcription save of a speech task
\* (lines 887-897)
SavesSucceed ==
    /\ Len(db_sound_alerts') - Len(db_sound_alerts)
           = Len(sound_alerts') - Len(sound_alerts)
    /\ speech_tasks' < speech_tasks
           => Len(db_transcriptions') - Len(db_transcriptions)
                  = Len(transcriptions') - Len(transcriptions)

InitMirror == InitStore /\ db_initialized

NextMirror ==
    \/ \E t \in ThreadIds, level \in QuietLevels : DemoTick(t, level)
    \/ \E t \in ThreadIds : LiveEmpty(t)
    \/ \E t \in ThreadIds : LiveFrame(t, FALSE)
    \/ \E t \in ThreadIds, d \in DemoInputs : ChunkTrim(t, d, "none") /\ SavesSucceed
    \/ \E t \in ThreadIds, d \in DemoInputs : ChunkAssign(t, d, "none") /\ SavesSucceed
    \/ \E f \in StoreFrames : audio_callback(f)
    \/ \E text \in {"", "hello"}, a \in AnalysisResults :
           process_speech(text, a) /\ SavesSucceed

SpecMirror == InitMirror /\ [][NextMirror]_vars

\* the document save_transcription stores for a transcription appended by a
\* speech task, lines 890-894
TranscriptionDocument(item) ==
    [text |-> item.text, emotion |-> item.emotion, source |-> "automatic"]

\* C33: with an initialized store whose saves succeed, the store mirrors the
\* sinks: it holds one document for every transcription and for every alert
\* in memory, in the order of the appends, and no other document.
C33_StoreMirrorsSinks ==
    /\ Len(db_transcriptions) = Len(transcriptions)
    /\ \A i \in 1..Len(transcriptions) :
           db_transcriptions[i] = TranscriptionDocument(transcriptions[i])
    /\ Len(db_sound_alerts) = Len(sound_alerts)
    /\ \A i \in 1..Len(sound_alerts) :
           db_sound_alerts[i] = AlertDocument(sound_alerts[i])

\* C34: the queue between the capture callback and the live loop has a
\* capacity: whatever room MaxQueue gives the queue, the callback never
\* fills it.
C34_QueueBounded ==
    \E capacity \in 0..(MaxQueue - 1) : Len(audio_queue) <= capacity

\* the alerts a step has appended to the sink
NewlyAppended == {i \in 1..Len(sound_alerts') : i > Len(sound_alerts)}

\* C35: while directional_audio is off, the alerts of a frame carry the
\* default direction (center, angle 0) and not an estimated one.
C35_DirectionNeedsPreference ==
    [][\A t \in LiveThreads :
          (ChunkEnds(t) /\ ~user_preferences.directional_audio)
              => \A i \in NewlyAppended :
                     /\ sound_alerts'[i].direction = "center"
                     /\ sound_alerts'[i].angle = Zero]_vars

\* the last request answered was an /api/stop and no request is being served
StopReturned ==
    /\ last_response.op = "stop"
    /\ \A r \in ReqIds : req[r].pc = "idle"

\* C36: once /api/stop has returned, stopped or not_running, no live loop is
\* active until another request is made: no live thread is in its while with
\* is_processing_audio set.
C36_NoLoopAfterStop ==
    StopReturned => ~LoopActive(FALSE)

\* C37: a loop that is active stays active until a stop or an accepted mode
\* switch ends it: every step after which the active loop of a mode is no
\* longer active is the step of /api/stop or of set-demo-mode that clears its
\* flag or changes the mode.
C37_LoopKeepsRunning ==
    [][\A m \in BOOLEAN :
          (LoopActive(m) /\ ~LoopActive(m)')
              => \E r \in ReqIds : StopCheck(r) \/ SetModeChange(r)]_vars

C39_NoLiveSpawnInDemoMode ==
    [][/\ Cardinality(LiveThreads') > Cardinality(LiveThreads) => ~demo_mode
       /\ \A r \in ReqIds :
              (StartMode(r) /\ demo_mode)
                  => /\ last_response' = [op |-> "start", result |-> "ignored"]
                     /\ UNCHANGED <<flags, threads, data>>]_vars

\* ---- clear-data and the queries
\* A live pipeline that has produced a transcription and an alert, without a
\* store or with one that holds the documents saved for them.
InitClear ==
    /\ RunningControl(<<"live">>)
    /\ audio_level_history = InitHistory
    /\ expected_history = InitHistory
    /\ \E n \in 1..2 : transcriptions = [i \in 1..n |-> OldTranscription]
    /\ sound_alerts = <<OldAlert>>
    /\ audio_queue = <<>>
    /\ user_preferences = default_preferences
    /\ speech_tasks = 0
    /\ speech_pending = <<>>
    /\ db_initialized \in BOOLEAN
    /\ db_transcriptions = IF db_initialized
                             THEN [i \in 1..Len(transcriptions) |->
                                      TranscriptionDocument(transcriptions[i])]
                             ELSE <<>>
    /\ db_sound_alerts = IF db_initialized THEN <<AlertDocument(OldAlert)>> ELSE <<>>

\* /api/clear-data and the two queries, each on the store or on the
\* in-memory lists; the pipeline produces nothing.
NextClear ==
    \/ clear_data(1)
    \/ \E limit \in QueryLimits, page \in QueryPages, emotion \in QueryEmotions :
           get_transcriptions(1, limit, page, emotion)
    \/ \E limit \in QueryLimits, page \in QueryPages : get_sound_alerts(1, limit, page)
    \/ \E limit \in QueryLimits, page \in QueryPages, emotion \in QueryEmotions :
           db_get_transcriptions(1, limit, page, emotion)
    \/ \E limit \in QueryLimits, page \in QueryPages : db_get_sound_alerts(1, limit, page)

SpecClear == InitClear /\ [][NextClear]_vars

\* /api/clear-data has run: under SpecClear the sinks start non-empty and
\* only it empties them
Cleared == transcriptions = <<>> /\ sound_alerts = <<>>

\* C40: after /api/clear-data, with the pipeline producing nothing, both
\* queries answer total 0 and an empty list, with a store and without one.
C40_QueriesEmptyAfterClear ==
    [][Cleared =>
          /\ \A limit \in QueryLimits, page \in QueryPages, emotion \in QueryEmotions :
                 (get_transcriptions(1, limit, page, emotion)
                    \/ db_get_transcriptions(1, limit, page, emotion))
                 => /\ last_response'.result.total = 0
                    /\ last_response'.result.transcriptions = <<>>
          /\ \A limit \in QueryLimits, page \in QueryPages :
                 (get_sound_alerts(1, limit, page) \/ db_get_sound_alerts(1, limit, page))
                 => /\ last_response'.result.total = 0
                    /\ last_response'.result.soundAlerts = <<>>]_vars
=========================================================================
